---- MODULE Spec2Model ----
(***************************************************************************)
(* Dojo training log: the progression engine (RIR-driven variant).         *)
(*                                                                         *)
(* Conventions of the model                                                *)
(*  - a JavaScript object is a record; a property that is absent           *)
(*    (undefined) is a field that is not in the record's DOMAIN;           *)
(*  - the clock counts half days: a day is DAY_MS units of time;            *)
(*  - median returns TWICE the median, so that the average of the two      *)
(*    middle elements stays an integer; comparisons double the other side; *)
(*  - profile.deloadVolumeFactor is held in hundredths (65 is 0.65);       *)
(*  - loadKg and loadIncrementKg are held in half kilograms (5 is 2.5 kg). *)
(***************************************************************************)
EXTENDS Integers, Sequences, FiniteSets, TLC

VARIABLES exercise, settings, logs, now, pc, target, again,
          windowDays, completeOnly, entry, result,
          exercises, templates, db, quickCheckLogs, detailLogs, overlay,
          download, upload, dialog, uuids,
          handlers, jobs, transactions

\* the analytics view and the calls of the statistics and validation functions
fnVars == <<windowDays, completeOnly, entry, result>>

\* state.exercises and state.templates, the object stores, the quick check and
\* the detailed log form, the cards on the page, the backup file written and the
\* file read, the message shown, the number of identifiers handed out
appVars == <<exercises, templates, db, quickCheckLogs, detailLogs, overlay,
             download, upload, dialog, uuids>>

\* the Save handlers that are running, the microtask queue and the readwrite
\* transactions that IndexedDB has not committed yet
gtgVars == <<handlers, jobs, transactions>>

vars == <<exercise, settings, logs, now, pc, target, again, fnVars, appVars, gtgVars>>

---------------------------------------------------------------------------
(* Bounds of the model *)

\* the clock value at which the engine is called
Now0 == 200
\* how many single logs a history holds
MaxLogs == 2
\* how many equal logs a run holds, and how many runs a long history holds
BurstSize == 15
MaxBursts == 3
\* how many units of the numbers of a validated log make 1
FormUnit == 2
\* how many identifiers uuid() hands out after those of the starter exercises
MaxIds == 2

---------------------------------------------------------------------------
(* Objects *)

\* one day, in the half days of the clock (24 * 60 * 60 * 1000 ms in the source)
DAY_MS == 2

\* .slice(0, 30) of the working set
RecentCap == 30

Has(obj, f) == f \in DOMAIN obj

\* the object with no property
Empty == [f \in {} |-> 0]

\* obj.f ?? dflt
OrElse(obj, f, dflt) == IF Has(obj, f) THEN obj[f] ELSE dflt

defaultProgression ==
  [targetRirMin |-> 3, targetRirMax |-> 5, maxWeeklyVolumeIncreasePct |-> 10,
   painWarn |-> 3, painReduce |-> 5, deloadDays |-> 7,
   deloadVolumeFactor |-> 65, freezeDaysIfPain |-> 2]

\* a per-exercise override of the thresholds
overrideProgression ==
  [targetRirMin |-> 2, targetRirMax |-> 6, maxWeeklyVolumeIncreasePct |-> 50,
   painWarn |-> 4, painReduce |-> 6, deloadDays |-> 7,
   deloadVolumeFactor |-> 50, freezeDaysIfPain |-> 1]

\* the starter exercises of ensureDefaults
PushUps ==
  [type |-> "reps", repRange |-> [min |-> 6, max |-> 15],
   repIncrement |-> 1, minRepsFloor |-> 1]

BenchPress ==
  [type |-> "weighted", repRange |-> [min |-> 6, max |-> 10],
   loadIncrementKg |-> 5, repIncrement |-> 1]

WallSit ==
  [type |-> "isometric", durationRangeSec |-> [min |-> 20, max |-> 60],
   timeIncrementSec |-> 5]

Exercises ==
  LET base == {PushUps, BenchPress, WallSit}
  IN  base \cup {e @@ [progressionProfile |-> overrideProgression] : e \in base}

---------------------------------------------------------------------------
(* Numeric utilities *)

Max2(a, b) == IF a >= b THEN a ELSE b
Min2(a, b) == IF a <= b THEN a ELSE b

\* mutant: the lower bound is forgotten
clamp_NoFloor(value, min, max) == Min2(value, max)

clamp(value, min, max) == Min2(Max2(value, min), max)

\* Math.round(x * pct / 100) for x >= 0: round half up
RoundPct(x, pct) == (2 * x * pct + 100) \div 200

\* the values equal to the keys, key after key in ascending order
RECURSIVE AscByKey(_, _)
AscByKey(values, keys) ==
  IF keys = {} THEN <<>>
  ELSE LET k == CHOOSE x \in keys : \A y \in keys : x <= y
           IsK(v) == v = k
       IN  SelectSeq(values, IsK) \o AscByKey(values, keys \ {k})

\* [...values].sort((a, b) => a - b)
SortAsc(values) == AscByKey(values, {values[i] : i \in 1..Len(values)})

\* twice the median of values
median(values) ==
  IF Len(values) = 0 THEN 0
  ELSE LET sorted == SortAsc(values)
           mid == Len(sorted) \div 2
       IN  IF Len(sorted) % 2 = 0
           THEN sorted[mid] + sorted[mid + 1]
           ELSE 2 * sorted[mid + 1]

---------------------------------------------------------------------------
(* Arrays of logs *)

\* arr.filter(P) is SelectSeq(arr, P): a new array, the entries of arr that
\* satisfy P, in arr's order

\* arr.slice(0, n)
slice0(arr, n) == SubSeq(arr, 1, Min2(n, Len(arr)))

\* the logs of each timestamp in the order of arr, newest timestamp first
RECURSIVE NewestFirstByKey(_, _)
NewestFirstByKey(arr, keys) ==
  IF keys = {} THEN <<>>
  ELSE LET k == CHOOSE x \in keys : \A y \in keys : x >= y
           IsK(log) == log.timestamp = k
       IN  SelectSeq(arr, IsK) \o NewestFirstByKey(arr, keys \ {k})

\* arr.sort((a, b) => b.timestamp - a.timestamp): the sort is stable, entries
\* of equal timestamp keep their order
sortNewestFirst(arr) ==
  NewestFirstByKey(arr, {arr[i].timestamp : i \in 1..Len(arr)})

\* arr.reduce((sum, log) => sum + volumeFn(log), 0); volumeFn is a function
\* on the logs of arr
SumOver(arr, volumeFn) ==
  LET S[i \in 0..Len(arr)] == IF i = 0 THEN 0 ELSE S[i - 1] + volumeFn[arr[i]]
  IN  S[Len(arr)]

---------------------------------------------------------------------------
(* getRecentCompleteLogs: the guardrail evaluator *)

GuardrailNote == "Pain guardrails triggered a deload."

IsComplete(log) == log.status = "complete"

HasPain(log) == Has(log, "pain0to10")

\* mutant: the working set is not cut to the 30 newest
recentCompleteLogs_NoCap(lgs, t) ==
  LET Within14(log) == t - log.timestamp <= 14 * DAY_MS
  IN  sortNewestFirst(SelectSeq(SelectSeq(lgs, IsComplete), Within14))

\* the working set: complete, at most 14 days old, newest first, at most 30
recentCompleteLogs(lgs, t) ==
  LET Within14(log) == t - log.timestamp <= 14 * DAY_MS
  IN  slice0(sortNewestFirst(SelectSeq(SelectSeq(lgs, IsComplete), Within14)), RecentCap)

\* the newest logs that carry a pain value, at most n of them
painFlagLogs(lgs, n) == slice0(sortNewestFirst(SelectSeq(lgs, HasPain)), n)

painHigh(painFlags, profile) ==
  \E i \in 1..Len(painFlags) : OrElse(painFlags[i], "pain0to10", 0) >= profile.painReduce

\* mutant: a streak is accepted with fewer than freezeDaysIfPain logs
painWarnStreak_AnyCount(painFlags, profile) ==
  \A i \in 1..Len(painFlags) : OrElse(painFlags[i], "pain0to10", 0) >= profile.painWarn

painWarnStreak(painFlags, profile) ==
  /\ Len(painFlags) = profile.freezeDaysIfPain
  /\ \A i \in 1..Len(painFlags) : OrElse(painFlags[i], "pain0to10", 0) >= profile.painWarn

\* the third argument is this.progressionProfile: it is passed as the object
\* that may hold it, since undefined is an absent field
getRecentCompleteLogs(lgs, ctx, this) ==
  LET profile == OrElse(this, "progressionProfile", ctx.profile)
      recentLogs == recentCompleteLogs(lgs, ctx.now)
      painFlags == painFlagLogs(lgs, profile.freezeDaysIfPain)
      deload == painHigh(painFlags, profile) \/ painWarnStreak(painFlags, profile)
  IN  [recentLogs |-> recentLogs,
       profile |-> profile,
       explanation |-> IF deload THEN <<GuardrailNote>> ELSE <<>>,
       frozen |-> deload,
       deload |-> deload]

---------------------------------------------------------------------------
(* getWeeklyVolume *)

\* mutant: the first instant of the current week is counted in both weeks
getWeeklyVolume_ClosedPrevWeek(lgs, t, volumeFn) ==
  LET weekStart == t - 7 * DAY_MS
      prevWeekStart == t - 14 * DAY_MS
      ThisWeek(log) == log.timestamp >= weekStart
      PrevWeek(log) == log.timestamp >= prevWeekStart /\ log.timestamp <= weekStart
  IN  [volumeThisWeek |-> SumOver(SelectSeq(lgs, ThisWeek), volumeFn),
       volumePrevWeek |-> SumOver(SelectSeq(lgs, PrevWeek), volumeFn)]

\* volumeFn is a function on the logs of lgs
getWeeklyVolume(lgs, t, volumeFn) ==
  LET weekStart == t - 7 * DAY_MS
      prevWeekStart == t - 14 * DAY_MS
      ThisWeek(log) == log.timestamp >= weekStart
      PrevWeek(log) == log.timestamp >= prevWeekStart /\ log.timestamp < weekStart
  IN  [volumeThisWeek |-> SumOver(SelectSeq(lgs, ThisWeek), volumeFn),
       volumePrevWeek |-> SumOver(SelectSeq(lgs, PrevWeek), volumeFn)]

\* mutant: an empty previous week is not excluded
VolumeCapHit_NoPrevCheck(vol, profile) ==
  (vol.volumeThisWeek - vol.volumePrevWeek) * 100
    > profile.maxWeeklyVolumeIncreasePct * vol.volumePrevWeek

\* volumePrevWeek > 0 && volumeIncreasePct > maxWeeklyVolumeIncreasePct
VolumeCapHit(vol, profile) ==
  /\ vol.volumePrevWeek > 0
  /\ (vol.volumeThisWeek - vol.volumePrevWeek) * 100
       > profile.maxWeeklyVolumeIncreasePct * vol.volumePrevWeek

---------------------------------------------------------------------------
(* computeNextTarget, one per exercise kind *)

HasRir(log) == Has(log, "rir")

\* recentLogs.map((log) => log.rir).filter((rir) => rir !== undefined)
RecentRir(recentLogs) ==
  LET withRir == SelectSeq(recentLogs, HasRir)
  IN  [i \in 1..Len(withRir) |-> withRir[i].rir]

\* recentLogs[0]?.f ?? dflt
FirstOr(recentLogs, f, dflt) ==
  IF recentLogs = <<>> THEN dflt ELSE OrElse(recentLogs[1], f, dflt)

LogsOf(lgs) == {lgs[i] : i \in 1..Len(lgs)}

\* (log) => log.reps ?? 0
RepsVolume(lgs) == [log \in LogsOf(lgs) |-> OrElse(log, "reps", 0)]

\* (log) => (log.reps ?? 0) * (log.loadKg ?? 0)
WeightedVolume(lgs) ==
  [log \in LogsOf(lgs) |-> OrElse(log, "reps", 0) * OrElse(log, "loadKg", 0)]

\* (log) => log.durationSec ?? 0
IsometricVolume(lgs) == [log \in LogsOf(lgs) |-> OrElse(log, "durationSec", 0)]

EasyReps == "Effort was easy; nudging reps up."
HighReps == "Effort was high; reducing reps."
TopReps == "Hit top reps; adding load and resetting reps."
EasyTime == "Effort was easy; nudging time up."
HighTime == "Effort was high; reducing time."
CapNote == "Volume cap hit; holding steady."
DeloadNote == "Deload active; reducing volume."

\* mutant: the median of no value, 0, is taken for an effort
EffortApplies_NoRirCheck(g, rirs) == ~g.frozen /\ ~g.deload

\* if (!frozen && !deload && medianRir !== undefined): rirs is recentRir
EffortApplies(g, rirs) == ~g.frozen /\ ~g.deload /\ Len(rirs) > 0

\* the effort step of a rep-based exercise; medianRir is twice the median
RepsEffort(this, lastTarget, medianRir, profile) ==
  IF medianRir > 2 * profile.targetRirMax
  THEN [reps |-> lastTarget + this.repIncrement, note |-> <<EasyReps>>]
  ELSE IF medianRir < 2 * profile.targetRirMin
       THEN [reps |-> lastTarget - this.repIncrement, note |-> <<HighReps>>]
       ELSE [reps |-> lastTarget, note |-> <<>>]

\* mutant: Math.floor instead of Math.round
RepsDeload_Floor(this, lastTarget, profile) ==
  Max2(this.minRepsFloor, (lastTarget * profile.deloadVolumeFactor) \div 100)

RepsDeload(this, lastTarget, profile) ==
  Max2(this.minRepsFloor, RoundPct(lastTarget, profile.deloadVolumeFactor))

RepsExercise_computeNextTarget(this, lgs, ctx) ==
  LET g == getRecentCompleteLogs(lgs, ctx, this)
      profile == g.profile
      recentRir == RecentRir(g.recentLogs)
      lastTarget == FirstOr(g.recentLogs, "reps", this.repRange.min)
      step == IF EffortApplies(g, recentRir)
              THEN RepsEffort(this, lastTarget, median(recentRir), profile)
              ELSE [reps |-> lastTarget, note |-> <<>>]
      clamped == clamp(step.reps, this.minRepsFloor, this.repRange.max)
      cap == VolumeCapHit(getWeeklyVolume(lgs, ctx.now, RepsVolume(lgs)), profile)
      capped == IF cap THEN lastTarget ELSE clamped
      nextReps == IF g.deload THEN RepsDeload(this, lastTarget, profile) ELSE capped
  IN  [metricType |-> "reps",
       reps |-> nextReps,
       explanation |-> g.explanation \o step.note
                         \o (IF cap THEN <<CapNote>> ELSE <<>>)
                         \o (IF g.deload THEN <<DeloadNote>> ELSE <<>>),
       frozen |-> g.frozen,
       deload |-> g.deload]

\* mutant: the load is added one step late, reps pass repRange.max first
WeightedEffort_LateTopOut(this, lastReps, lastLoad, medianRir, profile) ==
  IF medianRir > 2 * profile.targetRirMax
  THEN IF lastReps <= this.repRange.max
       THEN [reps |-> lastReps + this.repIncrement, loadKg |-> lastLoad,
             note |-> <<EasyReps>>]
       ELSE [reps |-> this.repRange.min, loadKg |-> lastLoad + this.loadIncrementKg,
             note |-> <<TopReps>>]
  ELSE IF medianRir < 2 * profile.targetRirMin
       THEN [reps |-> Max2(this.repRange.min, lastReps - this.repIncrement),
             loadKg |-> lastLoad, note |-> <<HighReps>>]
       ELSE [reps |-> lastReps, loadKg |-> lastLoad, note |-> <<>>]

\* mutant: the reduction is not stopped at repRange.min
WeightedEffort_NoFloor(this, lastReps, lastLoad, medianRir, profile) ==
  IF medianRir > 2 * profile.targetRirMax
  THEN IF lastReps < this.repRange.max
       THEN [reps |-> lastReps + this.repIncrement, loadKg |-> lastLoad,
             note |-> <<EasyReps>>]
       ELSE [reps |-> this.repRange.min, loadKg |-> lastLoad + this.loadIncrementKg,
             note |-> <<TopReps>>]
  ELSE IF medianRir < 2 * profile.targetRirMin
       THEN [reps |-> lastReps - this.repIncrement,
             loadKg |-> lastLoad, note |-> <<HighReps>>]
       ELSE [reps |-> lastReps, loadKg |-> lastLoad, note |-> <<>>]

\* the effort step of a weighted exercise; medianRir is twice the median
WeightedEffort(this, lastReps, lastLoad, medianRir, profile) ==
  IF medianRir > 2 * profile.targetRirMax
  THEN IF lastReps < this.repRange.max
       THEN [reps |-> lastReps + this.repIncrement, loadKg |-> lastLoad,
             note |-> <<EasyReps>>]
       ELSE [reps |-> this.repRange.min, loadKg |-> lastLoad + this.loadIncrementKg,
             note |-> <<TopReps>>]
  ELSE IF medianRir < 2 * profile.targetRirMin
       THEN [reps |-> Max2(this.repRange.min, lastReps - this.repIncrement),
             loadKg |-> lastLoad, note |-> <<HighReps>>]
       ELSE [reps |-> lastReps, loadKg |-> lastLoad, note |-> <<>>]

\* Math.round works on kilograms and lastLoad is in half kilograms
WeightedDeload(this, lastReps, lastLoad, profile) ==
  [reps |-> Max2(this.repRange.min, RoundPct(lastReps, profile.deloadVolumeFactor)),
   loadKg |-> Max2(this.loadIncrementKg,
                   2 * ((lastLoad * profile.deloadVolumeFactor + 100) \div 200))]

WeightedRepsExercise_computeNextTarget(this, lgs, ctx) ==
  LET g == getRecentCompleteLogs(lgs, ctx, this)
      profile == g.profile
      recentRir == RecentRir(g.recentLogs)
      lastReps == FirstOr(g.recentLogs, "reps", this.repRange.min)
      lastLoad == FirstOr(g.recentLogs, "loadKg", this.loadIncrementKg * 4)
      step == IF EffortApplies(g, recentRir)
              THEN WeightedEffort(this, lastReps, lastLoad, median(recentRir), profile)
              ELSE [reps |-> lastReps, loadKg |-> lastLoad, note |-> <<>>]
      cap == VolumeCapHit(getWeeklyVolume(lgs, ctx.now, WeightedVolume(lgs)), profile)
      capped == IF cap THEN [reps |-> lastReps, loadKg |-> lastLoad]
                ELSE [reps |-> step.reps, loadKg |-> step.loadKg]
      next == IF g.deload THEN WeightedDeload(this, lastReps, lastLoad, profile)
              ELSE capped
  IN  [metricType |-> "weightedReps",
       reps |-> next.reps,
       loadKg |-> next.loadKg,
       explanation |-> g.explanation \o step.note
                         \o (IF cap THEN <<CapNote>> ELSE <<>>)
                         \o (IF g.deload THEN <<DeloadNote>> ELSE <<>>),
       frozen |-> g.frozen,
       deload |-> g.deload]

\* mutant: the two comparisons are exchanged, an easy effort shortens the hold
IsometricEffort_Exchanged(this, lastTarget, medianRir, profile) ==
  IF medianRir < 2 * profile.targetRirMin
  THEN [durationSec |-> lastTarget + this.timeIncrementSec, note |-> <<EasyTime>>]
  ELSE IF medianRir > 2 * profile.targetRirMax
       THEN [durationSec |-> lastTarget - this.timeIncrementSec, note |-> <<HighTime>>]
       ELSE [durationSec |-> lastTarget, note |-> <<>>]

\* the effort step of an isometric exercise; medianRir is twice the median
IsometricEffort(this, lastTarget, medianRir, profile) ==
  IF medianRir > 2 * profile.targetRirMax
  THEN [durationSec |-> lastTarget + this.timeIncrementSec, note |-> <<EasyTime>>]
  ELSE IF medianRir < 2 * profile.targetRirMin
       THEN [durationSec |-> lastTarget - this.timeIncrementSec, note |-> <<HighTime>>]
       ELSE [durationSec |-> lastTarget, note |-> <<>>]

IsometricDeload(this, lastTarget, profile) ==
  Max2(this.durationRangeSec.min, RoundPct(lastTarget, profile.deloadVolumeFactor))

IsometricExercise_computeNextTarget(this, lgs, ctx) ==
  LET g == getRecentCompleteLogs(lgs, ctx, this)
      profile == g.profile
      recentRir == RecentRir(g.recentLogs)
      lastTarget == FirstOr(g.recentLogs, "durationSec", this.durationRangeSec.min)
      step == IF EffortApplies(g, recentRir)
              THEN IsometricEffort(this, lastTarget, median(recentRir), profile)
              ELSE [durationSec |-> lastTarget, note |-> <<>>]
      clamped == clamp(step.durationSec, this.durationRangeSec.min,
                       this.durationRangeSec.max)
      cap == VolumeCapHit(getWeeklyVolume(lgs, ctx.now, IsometricVolume(lgs)), profile)
      capped == IF cap THEN lastTarget ELSE clamped
      nextDuration == IF g.deload THEN IsometricDeload(this, lastTarget, profile)
                      ELSE capped
  IN  [metricType |-> "isometric",
       durationSec |-> nextDuration,
       explanation |-> g.explanation \o step.note
                         \o (IF cap THEN <<CapNote>> ELSE <<>>)
                         \o (IF g.deload THEN <<DeloadNote>> ELSE <<>>),
       frozen |-> g.frozen,
       deload |-> g.deload]

\* new RepsExercise(record) and its siblings: the constructors' defaults
hydrateExercise(record) ==
  IF record.type = "reps"
  THEN record @@ [repIncrement |-> 1, minRepsFloor |-> 1]
  ELSE IF record.type = "weighted"
       THEN record @@ [repIncrement |-> 1, loadIncrementKg |-> 5]
       ELSE record @@ [timeIncrementSec |-> 5]

\* exercise.computeNextTarget(logs, ctx), dispatched on the hydrated class
computeNextTarget(this, lgs, ctx) ==
  IF this.type = "reps" THEN RepsExercise_computeNextTarget(this, lgs, ctx)
  ELSE IF this.type = "weighted"
       THEN WeightedRepsExercise_computeNextTarget(this, lgs, ctx)
       ELSE IsometricExercise_computeNextTarget(this, lgs, ctx)

---------------------------------------------------------------------------
(* The inputs: log histories of one exercise *)

\* older than the working set; the oldest day of the working set and of the
\* previous week; the first day of the current week
TimeStamps == {Now0 - 15 * DAY_MS, Now0 - 14 * DAY_MS, Now0 - 7 * DAY_MS}

Recent == {Now0 - 14 * DAY_MS, Now0 - 7 * DAY_MS}

\* the metrics a log of the exercise may carry: below, inside and beyond the range
Metrics(type) ==
  IF type = "reps" THEN {[reps |-> 1], [reps |-> 15], [reps |-> 17]}
  ELSE IF type = "weighted"
       THEN {[reps |-> 6, loadKg |-> 40], [reps |-> 10, loadKg |-> 40],
             [reps |-> 10, loadKg |-> 50]}
       ELSE {[durationSec |-> 10], [durationSec |-> 30], [durationSec |-> 70]}

BigMetric(type) ==
  IF type = "reps" THEN [reps |-> 17]
  ELSE IF type = "weighted" THEN [reps |-> 10, loadKg |-> 50]
       ELSE [durationSec |-> 70]

\* the optional subjective fields
Subjective ==
  {Empty, [rir |-> 2], [rir |-> 6],
   [pain0to10 |-> 1], [pain0to10 |-> 3], [pain0to10 |-> 5]}

LogEntries(type) ==
  \* complete sets of the last 14 days
  {[timestamp |-> t, status |-> "complete"] @@ m @@ s :
     t \in Recent, m \in Metrics(type), s \in Subjective}
  \cup
  \* complete sets that are too old for the working set
  {[timestamp |-> Now0 - 15 * DAY_MS, status |-> "complete"] @@ BigMetric(type) @@ s :
     s \in {[rir |-> 6], [pain0to10 |-> 5]}}
  \cup
  \* skipped sets
  {[timestamp |-> Now0 - 7 * DAY_MS, status |-> "skipped"] @@ BigMetric(type) @@ s :
     s \in {[rir |-> 6], [pain0to10 |-> 1], [pain0to10 |-> 5]}}

---------------------------------------------------------------------------
(* The state machine: a history is put together, then the engine is called *)

NoTarget == Empty

Ctx == [now |-> now, profile |-> settings.progressionDefaults]

\* the four object stores, empty
EmptyDb == [exercises |-> {}, logs |-> {}, templates |-> {}, settings |-> {}]

\* the application as it is constructed: nothing loaded, no card, no file
AppIdle ==
  /\ exercises = <<>>
  /\ templates = <<>>
  /\ db = EmptyDb
  /\ quickCheckLogs = <<>>
  /\ detailLogs = <<>>
  /\ overlay = {}
  /\ download = <<>>
  /\ upload = <<>>
  /\ dialog = ""
  /\ uuids = 0
  /\ handlers = <<>>
  /\ jobs = <<>>
  /\ transactions = <<>>

\* state.windowDays = 30, state.completeOnly = true; no function called yet
FnIdle ==
  /\ windowDays = 30
  /\ completeOnly = TRUE
  /\ entry = Empty
  /\ result = Empty

Init ==
  /\ exercise \in Exercises
  /\ settings = [progressionDefaults |-> defaultProgression]
  /\ logs = <<>>
  /\ now = Now0
  /\ pc = "input"
  /\ target = NoTarget
  /\ again = NoTarget
  /\ FnIdle
  /\ AppIdle

\* state.logs.unshift(log)
AddLog(log) ==
  /\ pc = "input"
  /\ Len(logs) < MaxLogs
  /\ logs' = <<log>> \o logs
  /\ UNCHANGED <<exercise, settings, now, pc, target, again, fnVars, appVars, gtgVars>>

\* mutant: the caller's array itself is sorted
logsAfterCall_Sorted(lgs) == sortNewestFirst(lgs)

\* what the call leaves in the caller's array: filter copies, so that both sorts
\* of getRecentCompleteLogs work on arrays of their own
logsAfterCall(lgs) == lgs

\* const autoTarget = exercise.computeNextTarget(logs, {now, profile})
ComputeNextTarget ==
  /\ pc = "input"
  /\ target' = computeNextTarget(hydrateExercise(exercise), logs, Ctx)
  /\ logs' = logsAfterCall(logs)
  /\ pc' = "called"
  /\ UNCHANGED <<exercise, settings, now, again, fnVars, appVars, gtgVars>>

\* a second call with the same arguments
ComputeAgain ==
  /\ pc = "called"
  /\ again' = computeNextTarget(hydrateExercise(exercise), logs, Ctx)
  /\ logs' = logsAfterCall(logs)
  /\ pc' = "recalled"
  /\ UNCHANGED <<exercise, settings, now, target, fnVars, appVars, gtgVars>>

Next ==
  \/ \E log \in LogEntries(exercise.type) : AddLog(log)
  \/ ComputeNextTarget

Spec == Init /\ [][Next]_vars

NextTwice ==
  \/ \E log \in LogEntries(exercise.type) : AddLog(log)
  \/ ComputeNextTarget
  \/ ComputeAgain

SpecTwice == Init /\ [][NextTwice]_vars

\* the global thresholds as a backup can set them: importJson saves data.settings
\* as it is
Profiles ==
  {[defaultProgression EXCEPT !.freezeDaysIfPain = f, !.painWarn = p[1], !.painReduce = p[2]] :
     f \in {0, 1, 2}, p \in {<<3, 5>>, <<0, 0>>}}

InitProfiles ==
  /\ exercise \in {PushUps, BenchPress, WallSit}
  /\ settings \in {[progressionDefaults |-> p] : p \in Profiles}
  /\ logs = <<>>
  /\ now = Now0
  /\ pc = "input"
  /\ target = NoTarget
  /\ again = NoTarget
  /\ FnIdle
  /\ AppIdle

SpecProfiles == InitProfiles /\ [][Next]_vars

---------------------------------------------------------------------------
(* Long histories: the sets come in runs of equal logs *)

BurstEntries(type) ==
  {[timestamp |-> t, status |-> "complete"] @@ m @@ s :
     t \in Recent,
     m \in Metrics(type) \ {BigMetric(type)},
     s \in {[rir |-> 2], [rir |-> 6]}}
  \cup
  {[timestamp |-> Now0 - 15 * DAY_MS, status |-> "complete", rir |-> 6] @@ BigMetric(type),
   [timestamp |-> Now0 - 7 * DAY_MS, status |-> "skipped", rir |-> 6] @@ BigMetric(type)}

\* BurstSize times state.logs.unshift(log)
AddBurst(log) ==
  /\ pc = "input"
  /\ Len(logs) + BurstSize <= MaxBursts * BurstSize
  /\ logs' = [i \in 1..BurstSize |-> log] \o logs
  /\ UNCHANGED <<exercise, settings, now, pc, target, again, fnVars, appVars, gtgVars>>

NextCap ==
  \/ \E log \in BurstEntries(exercise.type) : AddBurst(log)
  \/ ComputeNextTarget

SpecCap == Init /\ [][NextCap]_vars

---------------------------------------------------------------------------
(* summarizePainFlags and computeStats *)

\* Math.round(n / d) for n >= 0 and d > 0: round half up
RoundDiv(n, d) == (2 * n + d) \div (2 * d)

\* new Date(timestamp).toISOString().slice(0, 10): the calendar day, in UTC
isoDay(timestamp) == timestamp \div DAY_MS

\* mutant: every log counts for a day of its own
summarizePainFlags_PerLog(lgs) ==
  LET Deload(log) == OrElse(log, "pain0to10", 0) >= 5
      Freeze(log) == OrElse(log, "pain0to10", 0) >= 3
  IN  [deloadCount |-> Len(SelectSeq(lgs, Deload)),
       freezeDays |-> Len(SelectSeq(lgs, Freeze)),
       activeDaysPerWeek |-> RoundDiv(Len(lgs) * 7, 4)]

summarizePainFlags(lgs) ==
  LET Deload(log) == OrElse(log, "pain0to10", 0) >= 5
      Freeze(log) == OrElse(log, "pain0to10", 0) >= 3
      daySet == {isoDay(lgs[i].timestamp) : i \in 1..Len(lgs)}
  IN  [deloadCount |-> Len(SelectSeq(lgs, Deload)),
       freezeDays |-> Len(SelectSeq(lgs, Freeze)),
       activeDaysPerWeek |-> RoundDiv(Cardinality(daySet) * 7, 4)]

\* loadKg * (1 + reps / 30), held in thirtieths of the unit of loadKg
estimate1RM(reps, loadKg) == loadKg * (30 + reps)

\* the quotient num / den is held as the pair of the two
average(values) ==
  IF Len(values) = 0 THEN [num |-> 0, den |-> 1]
  ELSE LET S[i \in 0..Len(values)] == IF i = 0 THEN 0 ELSE S[i - 1] + values[i]
       IN  [num |-> S[Len(values)], den |-> Len(values)]

\* Math.max(...values) of a non-empty array
MaxOf(values) ==
  CHOOSE v \in {values[i] : i \in 1..Len(values)} :
    \A i \in 1..Len(values) : values[i] <= v

\* arr.map((log) => log.f).filter((value) => value !== undefined)
FieldValues(arr, f) ==
  LET HasF(log) == Has(log, f)
      with == SelectSeq(arr, HasF)
  IN  [i \in 1..Len(with) |-> with[i][f]]

\* name: defined ? value : undefined, as a property of an object literal
Opt(name, defined, value) == IF defined THEN name :> value ELSE Empty

\* (log) => now - log.timestamp <= window * DAY_MS, as a filter of arr
WithinWindow(arr, window, t) ==
  LET Within(log) == t - log.timestamp <= window * DAY_MS
  IN  SelectSeq(arr, Within)

\* the fields that the three kinds compute alike; t is Date.now()
CommonStats(lgs, recentLogs, t, volumeFn) ==
  LET rir == FieldValues(recentLogs, "rir")
      pain == FieldValues(recentLogs, "pain0to10")
  IN  Opt("avgRir", Len(rir) > 0, average(rir))
        @@ Opt("medianRir", Len(rir) > 0, median(rir))
        @@ Opt("avgPain", Len(pain) > 0, average(pain))
        @@ getWeeklyVolume(lgs, t, volumeFn)
        @@ summarizePainFlags(lgs)

RepsExercise_computeStats(this, lgs, window, t) ==
  LET recentLogs == WithinWindow(lgs, window, t)
      reps == FieldValues(recentLogs, "reps")
  IN  Opt("prReps", Len(reps) > 0, MaxOf(reps))
        @@ CommonStats(lgs, recentLogs, t, RepsVolume(lgs))

\* mutant: the previous PR is kept when the window is empty
WeightedRepsExercise_computeStats_ZeroPr(this, lgs, window, t) ==
  LET recentLogs == WithinWindow(lgs, window, t)
      reps == FieldValues(recentLogs, "reps")
      loads == FieldValues(recentLogs, "loadKg")
      Both(log) == OrElse(log, "reps", 0) # 0 /\ OrElse(log, "loadKg", 0) # 0
      both == SelectSeq(recentLogs, Both)
      estimated == [i \in 1..Len(both) |-> estimate1RM(both[i].reps, both[i].loadKg)]
  IN  Opt("prReps", TRUE, IF Len(reps) > 0 THEN MaxOf(reps) ELSE 0)
        @@ Opt("prLoadKg", Len(loads) > 0, MaxOf(loads))
        @@ Opt("bestEstimated1RM", Len(estimated) > 0, MaxOf(estimated))
        @@ CommonStats(lgs, recentLogs, t, WeightedVolume(lgs))

WeightedRepsExercise_computeStats(this, lgs, window, t) ==
  LET recentLogs == WithinWindow(lgs, window, t)
      reps == FieldValues(recentLogs, "reps")
      loads == FieldValues(recentLogs, "loadKg")
      \* .filter((log) => log.reps && log.loadKg)
      Both(log) == OrElse(log, "reps", 0) # 0 /\ OrElse(log, "loadKg", 0) # 0
      both == SelectSeq(recentLogs, Both)
      estimated == [i \in 1..Len(both) |-> estimate1RM(both[i].reps, both[i].loadKg)]
  IN  Opt("prReps", Len(reps) > 0, MaxOf(reps))
        @@ Opt("prLoadKg", Len(loads) > 0, MaxOf(loads))
        @@ Opt("bestEstimated1RM", Len(estimated) > 0, MaxOf(estimated))
        @@ CommonStats(lgs, recentLogs, t, WeightedVolume(lgs))

IsometricExercise_computeStats(this, lgs, window, t) ==
  LET recentLogs == WithinWindow(lgs, window, t)
      durations == FieldValues(recentLogs, "durationSec")
  IN  Opt("prDurationSec", Len(durations) > 0, MaxOf(durations))
        @@ CommonStats(lgs, recentLogs, t, IsometricVolume(lgs))

\* exercise.computeStats(logs, window), dispatched on the hydrated class
computeStats(this, lgs, window, t) ==
  IF this.type = "reps" THEN RepsExercise_computeStats(this, lgs, window, t)
  ELSE IF this.type = "weighted"
       THEN WeightedRepsExercise_computeStats(this, lgs, window, t)
       ELSE IsometricExercise_computeStats(this, lgs, window, t)

\* the volume function that the methods of a kind hand to getWeeklyVolume
volumeFnOf(this, lgs) ==
  IF this.type = "reps" THEN RepsVolume(lgs)
  ELSE IF this.type = "weighted" THEN WeightedVolume(lgs)
       ELSE IsometricVolume(lgs)

\* mutant: the statistics are computed from the whole history of the exercise
analyticsLogs_Unfiltered(lgs, window, onlyComplete, t) == lgs

\* renderAnalytics: the logs that are charted, listed and handed to computeStats
analyticsLogs(lgs, window, onlyComplete, t) ==
  LET Kept(log) == ~onlyComplete \/ log.status = "complete"
  IN  WithinWindow(SelectSeq(lgs, Kept), window, t)

\* renderAnalytics: the statistics of the selected exercise
renderAnalytics(this, lgs, window, onlyComplete, t) ==
  computeStats(hydrateExercise(this), analyticsLogs(lgs, window, onlyComplete, t),
               window, t)

---------------------------------------------------------------------------
(* validateLog, one per exercise kind *)

RepsRequired == "Reps are required for a complete set."
WeightedRepsRequired == "Reps are required for a complete weighted set."
LoadRequired == "Load is required for a complete weighted set."
DurationRequired == "Duration is required for a complete isometric set."

\* !log.f || log.f <= 0
Missing(log, f) == ~Has(log, f) \/ log[f] = 0 \/ log[f] <= 0

\* errors.length ? { valid: false, errors } : { valid: true }
Validation(errors) ==
  IF Len(errors) > 0 THEN [valid |-> FALSE, errors |-> errors] ELSE [valid |-> TRUE]

RepsExercise_validateLog(log) ==
  Validation(IF log.status = "complete" /\ Missing(log, "reps")
             THEN <<RepsRequired>> ELSE <<>>)

WeightedRepsExercise_validateLog(log) ==
  Validation(IF log.status = "complete"
             THEN (IF Missing(log, "reps") THEN <<WeightedRepsRequired>> ELSE <<>>)
                    \o (IF Missing(log, "loadKg") THEN <<LoadRequired>> ELSE <<>>)
             ELSE <<>>)

IsometricExercise_validateLog(log) ==
  Validation(IF log.status = "complete" /\ Missing(log, "durationSec")
             THEN <<DurationRequired>> ELSE <<>>)

\* exercise.validateLog(log), dispatched on the hydrated class
validateLog(this, log) ==
  IF this.type = "reps" THEN RepsExercise_validateLog(log)
  ELSE IF this.type = "weighted" THEN WeightedRepsExercise_validateLog(log)
       ELSE IsometricExercise_validateLog(log)

---------------------------------------------------------------------------
(* validateLog of the GTG variant *)

RepsAtLeastOne == "Reps must be at least 1."
LoadAboveZero == "Load must be greater than 0."
DurationAboveZero == "Duration must be greater than 0."

\* !log.reps || log.reps < 1, the 1 being FormUnit units
MissingOne(log, f) == ~Has(log, f) \/ log[f] = 0 \/ log[f] < FormUnit

GtgRepsExercise_validateLog(log) ==
  Validation(IF log.status = "complete" /\ MissingOne(log, "reps")
             THEN <<RepsAtLeastOne>> ELSE <<>>)

GtgWeightedRepsExercise_validateLog(log) ==
  Validation(IF log.status = "complete"
             THEN (IF MissingOne(log, "reps") THEN <<RepsAtLeastOne>> ELSE <<>>)
                    \o (IF Missing(log, "loadKg") THEN <<LoadAboveZero>> ELSE <<>>)
             ELSE <<>>)

GtgIsometricExercise_validateLog(log) ==
  Validation(IF log.status = "complete" /\ Missing(log, "durationSec")
             THEN <<DurationAboveZero>> ELSE <<>>)

GtgValidateLog(this, log) ==
  IF this.type = "reps" THEN GtgRepsExercise_validateLog(log)
  ELSE IF this.type = "weighted" THEN GtgWeightedRepsExercise_validateLog(log)
       ELSE GtgIsometricExercise_validateLog(log)

---------------------------------------------------------------------------
(* The inputs of the statistics: histories of one exercise *)

\* after now and at now; the first day of the current week and the half day
\* before it; the first day of the previous week and the half day before it;
\* beyond the windows of 30 and of 90 days
StatStamps ==
  {Now0 + 1, Now0,
   Now0 - 7 * DAY_MS, Now0 - 7 * DAY_MS - 1,
   Now0 - 14 * DAY_MS, Now0 - 14 * DAY_MS - 1,
   Now0 - 31 * DAY_MS, Now0 - 91 * DAY_MS}

StatMetric(type) ==
  IF type = "reps" THEN [reps |-> 8]
  ELSE IF type = "weighted" THEN [reps |-> 8, loadKg |-> 40]
       ELSE [durationSec |-> 30]

TopMetric(type) ==
  IF type = "reps" THEN [reps |-> 12]
  ELSE IF type = "weighted" THEN [reps |-> 10, loadKg |-> 50]
       ELSE [durationSec |-> 45]

StatEntries(type) ==
  {[timestamp |-> t, status |-> "complete", rir |-> 6, pain0to10 |-> 5] @@ StatMetric(type) :
     t \in StatStamps}
  \cup
  {[timestamp |-> t, status |-> "complete", rir |-> 3] @@ TopMetric(type) :
     t \in StatStamps}
  \cup
  {[timestamp |-> t, status |-> "skipped", pain0to10 |-> 3] @@ TopMetric(type) :
     t \in StatStamps}

\* the selectable windows of the analytics view
Windows == {7, 30, 90}

\* the logs handed to validateLog: their numbers are held in units of 1 / FormUnit
\* (a value of 1 is less than one repetition, one kilogram, one second)
FormNumbers == {-FormUnit, 0, 1, FormUnit, 3 * FormUnit}

FormEntries(type) ==
  LET Field(f) == {Empty} \cup {f :> n : n \in FormNumbers}
      metrics == IF type = "reps" THEN Field("reps")
                 ELSE IF type = "weighted"
                      THEN {r @@ l : r \in Field("reps"), l \in Field("loadKg")}
                      ELSE Field("durationSec")
  IN  {[status |-> s, timestamp |-> Now0] @@ m :
         s \in {"complete", "skipped"}, m \in metrics}

---------------------------------------------------------------------------
(* The state machine of the statistics: a history, then one of the functions *)

InitStats ==
  /\ exercise \in {PushUps, BenchPress, WallSit}
  /\ settings = [progressionDefaults |-> defaultProgression]
  /\ logs = <<>>
  /\ now = Now0
  /\ pc = "input"
  /\ target = NoTarget
  /\ again = NoTarget
  /\ FnIdle
  /\ AppIdle

\* getWeeklyVolume(logs, now, volumeFn), with the volume function of the kind
GetWeeklyVolume ==
  /\ pc = "input"
  /\ result' = getWeeklyVolume(logs, now, volumeFnOf(exercise, logs))
  /\ pc' = "weekly"
  /\ UNCHANGED <<exercise, settings, logs, now, target, again, windowDays,
               completeOnly, entry, appVars, gtgVars>>

SummarizePainFlags ==
  /\ pc = "input"
  /\ result' = summarizePainFlags(logs)
  /\ pc' = "pain"
  /\ UNCHANGED <<exercise, settings, logs, now, target, again, windowDays,
               completeOnly, entry, appVars, gtgVars>>

\* hydrated.computeStats(logs, window)
ComputeStats(window) ==
  /\ pc = "input"
  /\ windowDays' = window
  /\ result' = computeStats(hydrateExercise(exercise), logs, window, now)
  /\ pc' = "stats"
  /\ UNCHANGED <<exercise, settings, logs, now, target, again, completeOnly, entry,
               appVars, gtgVars>>

\* the analytics tab is rendered, at first or after the window or the
\* complete-only filter has been changed
RenderAnalytics(window, onlyComplete) ==
  /\ pc \in {"input", "analytics"}
  /\ windowDays' = window
  /\ completeOnly' = onlyComplete
  /\ result' = renderAnalytics(exercise, logs, window, onlyComplete, now)
  /\ pc' = "analytics"
  /\ UNCHANGED <<exercise, settings, logs, now, target, again, entry, appVars, gtgVars>>

NextStats ==
  \/ \E log \in StatEntries(exercise.type) : AddLog(log)
  \/ GetWeeklyVolume
  \/ SummarizePainFlags
  \/ \E window \in Windows : ComputeStats(window)
  \/ \E window \in Windows, onlyComplete \in BOOLEAN :
       RenderAnalytics(window, onlyComplete)

SpecStats == InitStats /\ [][NextStats]_vars

\* exercise.validateLog(log)
ValidateLog(log) ==
  /\ pc = "input"
  /\ entry' = log
  /\ result' = validateLog(hydrateExercise(exercise), log)
  /\ pc' = "validated"
  /\ UNCHANGED <<exercise, settings, logs, now, target, again, windowDays,
               completeOnly, appVars, gtgVars>>

\* exercise.validateLog(log) of the GTG variant; the kinds are those of the
\* exercise records, the baseline plays no part
ValidateLogGtg(log) ==
  /\ pc = "input"
  /\ entry' = log
  /\ result' = GtgValidateLog(exercise, log)
  /\ pc' = "validatedGtg"
  /\ UNCHANGED <<exercise, settings, logs, now, target, again, windowDays,
               completeOnly, appVars, gtgVars>>

NextValidate ==
  \/ \E log \in FormEntries(exercise.type) : ValidateLog(log)
  \/ \E log \in FormEntries(exercise.type) : ValidateLogGtg(log)

SpecValidate == Init /\ [][NextValidate]_vars

---------------------------------------------------------------------------
(* The application: the object stores, the forms, the backup file *)

\* the identifiers of the starter exercises; uuid() after n calls
StarterIds == 3
uuid(n) == StarterIds + n + 1

\* ensureDefaults: the starter exercises of an empty database
starterExercises ==
  <<[id |-> 1] @@ PushUps, [id |-> 2] @@ BenchPress, [id |-> 3] @@ WallSit>>

Elements(arr) == {arr[i] : i \in 1..Len(arr)}

\* obj.id, which is undefined (0 here) for an object read from a file without it
idOf(obj) == OrElse(obj, "id", 0)

\* array.find((entry) => entry.id === id): the elements found, first one first
FindById(arr, id) ==
  LET IsIt(element) == Has(element, "id") /\ element.id = id
  IN  SelectSeq(arr, IsIt)

\* store.put(value) of an object store with keyPath "id"
dbPut(database, storeName, value) ==
  [database EXCEPT ![storeName] = {r \in @ : r.id # value.id} \cup {value}]

\* store.delete(key)
dbDelete(database, storeName, key) ==
  [database EXCEPT ![storeName] = {r \in @ : r.id # key}]

\* saveSettings: the record the settings store keeps
settingsRecord(value) == [id |-> "app", value |-> value]

\* the toasts and the alert
LoggedToast == "Logged! Add RIR/pain or skip."
QuickSavedToast == "RIR and pain saved."
DetailSavedToast == "Detailed log saved."
UndoToast == "Last log removed."
ExerciseSavedToast == "Exercise saved."
TemplateSavedToast == "Template saved."
ImportCompleteToast == "Import complete."
InvalidJsonFile == "Invalid JSON file."

\* the metrics of a target that a new log takes over: reps: target.reps, ...
TargetMetrics(tgt) ==
  [f \in {"reps", "loadKg", "durationSec"} \cap DOMAIN tgt |-> tgt[f]]

\* the target of one item of the selection
itemTarget(item, this, lgs, ctx) ==
  IF OrElse(item, "targetMode", "auto") = "fixed" /\ Has(item, "fixedTarget")
  THEN item.fixedTarget
  ELSE LET Own(log) == log.exerciseId = this.id
       IN  computeNextTarget(this, SelectSeq(lgs, Own), ctx)

\* the log that quickLog and openDetailLog make for one item
newLog(id, item, this, lgs, ctx) ==
  [id |-> id, timestamp |-> ctx.now, exerciseId |-> this.id, status |-> "complete"]
    @@ TargetMetrics(itemTarget(item, this, lgs, ctx))

\* quickLog, the loop over the selection: the logs it makes, first one first;
\* every log is in state.logs when the target of the next item is computed
RECURSIVE quickLog(_, _, _, _, _)
quickLogNext(log, selection, exs, lgs, ctx, n) ==
  <<log>> \o quickLog(Tail(selection), exs, <<log>> \o lgs, ctx, n + 1)

quickLog(selection, exs, lgs, ctx, n) ==
  IF selection = <<>> THEN <<>>
  ELSE LET item == Head(selection)
           found == FindById(exs, item.exerciseId)
       IN  IF found = <<>> THEN quickLog(Tail(selection), exs, lgs, ctx, n)
           ELSE quickLogNext(newLog(uuid(n), item, hydrateExercise(found[1]), lgs, ctx),
                             selection, exs, lgs, ctx, n)

\* the identifiers of the logs a quick log made, in the order it made them
RECURSIVE madeIds(_)
madeIds(made) ==
  IF made = <<>> THEN <<>>
  ELSE <<Head(made).id>> \o madeIds(Tail(made))

\* for each log of an array: await dbPut("logs", log); state.logs.unshift(log)
RECURSIVE saveLogs(_, _)
saveLogs(made, st) ==
  IF made = <<>> THEN st
  ELSE saveLogs(Tail(made), [logs |-> <<Head(made)>> \o st.logs,
                             db |-> dbPut(st.db, "logs", Head(made))])

\* openDetailLog, the map over the selection: no log is saved yet, so every
\* target is computed from the same state.logs
RECURSIVE detailLogsOf(_, _, _, _, _)
detailLogsOf(selection, exs, lgs, ctx, n) ==
  IF selection = <<>> THEN <<>>
  ELSE LET item == Head(selection)
           found == FindById(exs, item.exerciseId)
       IN  IF found = <<>> THEN detailLogsOf(Tail(selection), exs, lgs, ctx, n)
           ELSE <<[exercise |-> hydrateExercise(found[1]),
                   log |-> newLog(uuid(n), item, hydrateExercise(found[1]), lgs, ctx)]>>
                  \o detailLogsOf(Tail(selection), exs, lgs, ctx, n + 1)

\* mutant: the quick check sets the status as well
quickInput_Status(lgs, id, metric, value) ==
  [i \in 1..Len(lgs) |->
     IF idOf(lgs[i]) = id
     THEN [f \in DOMAIN lgs[i] \cup {metric} |->
             IF f = metric THEN value
             ELSE IF f = "status" THEN "partial" ELSE lgs[i][f]]
     ELSE lgs[i]]

\* state.quickCheckLogs[index].rir = value: the entry of state.logs is the same
\* object, so the assignment shows in state.logs
quickInput(lgs, id, metric, value) ==
  [i \in 1..Len(lgs) |->
     IF idOf(lgs[i]) = id
     THEN [f \in DOMAIN lgs[i] \cup {metric} |-> IF f = metric THEN value ELSE lgs[i][f]]
     ELSE lgs[i]]

\* the quick check's Save: for (const log of state.quickCheckLogs) await dbPut
RECURSIVE quickSave(_, _, _)
quickSave(quick, lgs, database) ==
  IF quick = <<>> THEN database
  ELSE LET held == FindById(lgs, Head(quick))
       IN  quickSave(Tail(quick), lgs,
                     IF held = <<>> THEN database ELSE dbPut(database, "logs", held[1]))

\* the inputs of the detailed log form of one exercise kind
detailMetrics(type) ==
  (IF type = "isometric" THEN {"durationSec"}
   ELSE IF type = "weighted" THEN {"reps", "loadKg"} ELSE {"reps"})
  \cup {"rir", "pain0to10"}

\* the record saveExercise builds from the form's defaults
newExercise(id, type) ==
  IF type = "weighted"
  THEN [id |-> id, type |-> "weighted", repRange |-> [min |-> 6, max |-> 12],
        repIncrement |-> 1, loadIncrementKg |-> 5]
  ELSE IF type = "isometric"
       THEN [id |-> id, type |-> "isometric",
             durationRangeSec |-> [min |-> 20, max |-> 60], timeIncrementSec |-> 5]
       ELSE [id |-> id, type |-> "reps", repRange |-> [min |-> 6, max |-> 12],
             repIncrement |-> 1, minRepsFloor |-> 1]

---------------------------------------------------------------------------
(* JSON.stringify and JSON.parse *)

\* A text is <<"atom", v>> for a number or a string, <<"array", texts>>, or
\* <<"object", members>>, the members being <<key, text>> in the order of the
\* properties; a property whose value is undefined has no member.  The shapes
\* say which properties the objects of the state carry, in which order.
Atom == [kind |-> "atom"]
ArrayOf(shape) == [kind |-> "array", of |-> shape]
ObjectOf(fields) == [kind |-> "object", fields |-> fields]

RangeShape == ObjectOf(<< <<"min", Atom>>, <<"max", Atom>> >>)

ProfileShape ==
  ObjectOf(<< <<"targetRirMin", Atom>>, <<"targetRirMax", Atom>>,
              <<"maxWeeklyVolumeIncreasePct", Atom>>, <<"painWarn", Atom>>,
              <<"painReduce", Atom>>, <<"deloadDays", Atom>>,
              <<"deloadVolumeFactor", Atom>>, <<"freezeDaysIfPain", Atom>> >>)

ExerciseShape ==
  ObjectOf(<< <<"id", Atom>>, <<"type", Atom>>, <<"repRange", RangeShape>>,
              <<"durationRangeSec", RangeShape>>, <<"repIncrement", Atom>>,
              <<"minRepsFloor", Atom>>, <<"loadIncrementKg", Atom>>,
              <<"timeIncrementSec", Atom>>, <<"progressionProfile", ProfileShape>> >>)

LogShape ==
  ObjectOf(<< <<"id", Atom>>, <<"timestamp", Atom>>, <<"exerciseId", Atom>>,
              <<"reps", Atom>>, <<"loadKg", Atom>>, <<"durationSec", Atom>>,
              <<"status", Atom>>, <<"rir", Atom>>, <<"pain0to10", Atom>> >>)

TargetShape ==
  ObjectOf(<< <<"metricType", Atom>>, <<"explanation", ArrayOf(Atom)>>,
              <<"durationSec", Atom>>, <<"reps", Atom>>, <<"loadKg", Atom>> >>)

ItemShape ==
  ObjectOf(<< <<"exerciseId", Atom>>, <<"targetMode", Atom>>,
              <<"fixedTarget", TargetShape>> >>)

TemplateShape == ObjectOf(<< <<"id", Atom>>, <<"items", ArrayOf(ItemShape)>> >>)

SettingsShape == ObjectOf(<< <<"progressionDefaults", ProfileShape>> >>)

BackupShape ==
  ObjectOf(<< <<"exercises", ArrayOf(ExerciseShape)>>, <<"logs", ArrayOf(LogShape)>>,
              <<"templates", ArrayOf(TemplateShape)>>, <<"settings", SettingsShape>> >>)

RECURSIVE JSON_stringify(_, _)
JSON_stringify(value, shape) ==
  IF shape.kind = "atom" THEN <<"atom", value>>
  ELSE IF shape.kind = "array"
       THEN <<"array", [i \in 1..Len(value) |-> JSON_stringify(value[i], shape.of)]>>
       ELSE LET Defined(field) == Has(value, field[1])
                own == SelectSeq(shape.fields, Defined)
            IN  <<"object",
                  [i \in 1..Len(own) |->
                     <<own[i][1], JSON_stringify(value[own[i][1]], own[i][2])>>]>>

\* the texts JSON.parse throws a SyntaxError on
SyntaxError(text) == text[1] \notin {"atom", "array", "object", "null"}

\* of two members with the same key the later one wins
RECURSIVE JSON_parse(_)
JSON_parse(text) ==
  IF text[1] = "atom" THEN text[2]
  ELSE IF text[1] = "array"
       THEN [i \in 1..Len(text[2]) |-> JSON_parse(text[2][i])]
       ELSE LET members == text[2]
                keys == {members[i][1] : i \in 1..Len(members)}
                lastOf(k) == CHOOSE i \in 1..Len(members) :
                               /\ members[i][1] = k
                               /\ \A j \in (i + 1)..Len(members) : members[j][1] # k
            IN  [k \in keys |-> JSON_parse(members[lastOf(k)][2])]

\* exportJson: the text of dojo-backup.json
exportJson(exs, lgs, tpls, stg) ==
  JSON_stringify([exercises |-> exs, logs |-> lgs, templates |-> tpls, settings |-> stg],
                 BackupShape)

\* for (const record of records) await dbPut(storeName, record): a record
\* without the key path's property is rejected and ends the loop
RECURSIVE putEach(_, _, _)
putEach(database, storeName, records) ==
  IF records = <<>> THEN [db |-> database, failed |-> FALSE]
  ELSE IF ~Has(Head(records), "id") THEN [db |-> database, failed |-> TRUE]
       ELSE putEach(dbPut(database, storeName, Head(records)), storeName, Tail(records))

\* one of the three if (data.x) { state.x = data.x; for (...) await dbPut } of
\* importJson; st.failed says that an earlier step has thrown
importArray(data, name, st) ==
  IF st.failed \/ ~Has(data, name) THEN st
  ELSE LET put == putEach(st.db, name, data[name])
       IN  [[st EXCEPT ![name] = data[name]] EXCEPT !.db = put.db, !.failed = put.failed]

\* mutant: the logs of the backup are added to those in memory
importJson_Append(text, st) ==
  IF SyntaxError(text) \/ text[1] = "null" THEN [st EXCEPT !.failed = TRUE]
  ELSE LET data == JSON_parse(text)
           exs == importArray(data, "exercises", st)
           lgs == importArray(data, "logs", exs)
           kept == [lgs EXCEPT !.logs = IF Has(data, "logs") THEN @ \o st.logs ELSE @]
           tpls == importArray(data, "templates", kept)
       IN  IF tpls.failed \/ ~Has(data, "settings") THEN tpls
           ELSE [tpls EXCEPT !.settings = data.settings,
                             !.db = dbPut(@, "settings", settingsRecord(data.settings))]

\* importJson: what the try block leaves in the state and in the store;
\* failed says that the catch block has shown the alert
importJson(text, st) ==
  IF SyntaxError(text) \/ text[1] = "null" THEN [st EXCEPT !.failed = TRUE]
  ELSE LET data == JSON_parse(text)
           exs == importArray(data, "exercises", st)
           lgs == importArray(data, "logs", exs)
           tpls == importArray(data, "templates", lgs)
       IN  IF tpls.failed \/ ~Has(data, "settings") THEN tpls
           ELSE [tpls EXCEPT !.settings = data.settings,
                             !.db = dbPut(@, "settings", settingsRecord(data.settings))]

---------------------------------------------------------------------------
(* The application: inputs *)

\* the values typed into the template editor's fixed-target inputs
FixedMetrics(type) ==
  IF type = "reps" THEN {[reps |-> 0]}
  ELSE IF type = "weighted" THEN {[reps |-> 8]}
       ELSE {[durationSec |-> 30]}

metricTypeOf(type) ==
  IF type = "weighted" THEN "weightedReps"
  ELSE IF type = "isometric" THEN "isometric" ELSE "reps"

\* the items the template editor builds for an exercise: automatic, or fixed
\* with a value typed
autoItem(e) == [exerciseId |-> e.id, targetMode |-> "auto"]

fixedItems(e) ==
  {[exerciseId |-> e.id, targetMode |-> "fixed",
    fixedTarget |-> [metricType |-> metricTypeOf(e.type), explanation |-> <<>>] @@ m] :
     m \in FixedMetrics(e.type)}

\* addTemplateItem starts every item as the automatic item of the first
\* exercise; the templates here hold a fixed item for that exercise, alone or
\* after an automatic one
TemplateItemLists(exs) ==
  IF exs = <<>> THEN {}
  ELSE {<<i>> : i \in fixedItems(exs[1])}
       \cup {<<autoItem(exs[1]), i>> : i \in fixedItems(exs[1])}

\* the exercise whose Delete button is pressed: the last one of the list
LastExercise(exs) == IF exs = <<>> THEN {} ELSE {exs[Len(exs)].id}

\* the position the sliders of the quick check are moved to
SliderValues == {6}

\* what is typed into the detailed log form: no work done, an easy set
DetailInputs == {<<"reps", 0>>, <<"durationSec", 0>>, <<"rir", 6>>}

\* the engine setting typed into the settings tab
EngineInputs == {<<"painWarn", 4>>}

\* a file cut short, and the backup of another installation, one of whose logs
\* has no id
TruncatedFile == <<"{">>
ForeignBackup ==
  exportJson(<<newExercise(1, "reps")>>,
             <<[timestamp |-> Now0, exerciseId |-> 1, reps |-> 8, status |-> "complete"]>>,
             <<>>, [progressionDefaults |-> defaultProgression])

NoFile == <<>>

---------------------------------------------------------------------------
(* The application: the state machine *)

InitApp ==
  /\ exercise = PushUps
  /\ settings = [progressionDefaults |-> defaultProgression]
  /\ logs = <<>>
  /\ now = Now0
  /\ pc = "loadStore"
  /\ target = NoTarget
  /\ again = NoTarget
  /\ FnIdle
  /\ exercises = starterExercises
  /\ templates = <<>>
  /\ db = [EmptyDb EXCEPT !.exercises = Elements(starterExercises)]
  /\ quickCheckLogs = <<>>
  /\ detailLogs = <<>>
  /\ overlay = {}
  /\ download = NoFile
  /\ upload = NoFile
  /\ dialog = ""
  /\ uuids = 0
  /\ handlers = <<>>
  /\ jobs = <<>>
  /\ transactions = <<>>

engineVars == <<exercise, now, target, again, fnVars>>

\* quickLog()
QuickLogged(made) ==
  LET st == saveLogs(made, [logs |-> logs, db |-> db])
  IN  /\ uuids + Len(made) <= MaxIds
      /\ logs' = st.logs
      /\ db' = st.db
      /\ uuids' = uuids + Len(made)
      /\ quickCheckLogs' = madeIds(made)
      /\ overlay' = {"quick"}
      /\ detailLogs' = <<>>
      /\ dialog' = LoggedToast
      /\ pc' = "quickLog"
      /\ download' = NoFile
      /\ UNCHANGED gtgVars
      /\ upload' = NoFile
      /\ UNCHANGED <<engineVars, settings, exercises, templates>>

QuickLog(selection) ==
  QuickLogged(quickLog(selection, exercises, logs, Ctx, uuids))

\* the oninput handlers of the quick check's sliders
QuickInput(index, metric, value) ==
  /\ "quick" \in overlay
  /\ index \in 1..Len(quickCheckLogs)
  /\ logs' = quickInput(logs, quickCheckLogs[index], metric, value)
  /\ pc' = "quickInput"
  /\ download' = NoFile
  /\ UNCHANGED gtgVars
  /\ upload' = NoFile
  /\ UNCHANGED <<engineVars, settings, exercises, templates, db, quickCheckLogs,
                 detailLogs, overlay, dialog, uuids>>

\* the quick check's Save button
QuickSave ==
  /\ "quick" \in overlay
  /\ db' = quickSave(quickCheckLogs, logs, db)
  /\ quickCheckLogs' = <<>>
  /\ overlay' = {}
  /\ detailLogs' = <<>>
  /\ dialog' = QuickSavedToast
  /\ pc' = "quickSave"
  /\ download' = NoFile
  /\ UNCHANGED gtgVars
  /\ upload' = NoFile
  /\ UNCHANGED <<engineVars, settings, logs, exercises, templates, uuids>>

\* the quick check's Skip button
QuickSkip ==
  /\ "quick" \in overlay
  /\ quickCheckLogs' = <<>>
  /\ overlay' = {}
  /\ detailLogs' = <<>>
  /\ pc' = "quickSkip"
  /\ download' = NoFile
  /\ UNCHANGED gtgVars
  /\ upload' = NoFile
  /\ UNCHANGED <<engineVars, settings, logs, exercises, templates, db, dialog, uuids>>

\* openDetailLog(): the card is added to the page, nothing is rendered again
OpenDetailLog(selection) ==
  LET entries == detailLogsOf(selection, exercises, logs, Ctx, uuids)
  IN  /\ uuids + Len(entries) <= MaxIds
      /\ entries # <<>>
      /\ detailLogs' = entries
      /\ uuids' = uuids + Len(entries)
      /\ overlay' = overlay \cup {"detail"}
      /\ pc' = "openDetailLog"
      /\ download' = NoFile
      /\ UNCHANGED gtgVars
      /\ upload' = NoFile
      /\ UNCHANGED <<engineVars, settings, logs, exercises, templates, db,
                     quickCheckLogs, dialog>>

\* the oninput handler of the detailed log's inputs
DetailInput(index, metric, value) ==
  /\ "detail" \in overlay
  /\ index \in 1..Len(detailLogs)
  /\ metric \in detailMetrics(detailLogs[index].exercise.type)
  /\ detailLogs' =
       [detailLogs EXCEPT ![index].log =
          [f \in DOMAIN @ \cup {metric} |-> IF f = metric THEN value ELSE @[f]]]
  /\ pc' = "detailInput"
  /\ download' = NoFile
  /\ UNCHANGED gtgVars
  /\ upload' = NoFile
  /\ UNCHANGED <<engineVars, settings, logs, exercises, templates, db,
                 quickCheckLogs, overlay, dialog, uuids>>

\* the detailed log's Save button
DetailSave ==
  /\ "detail" \in overlay
  /\ LET st == saveLogs([i \in 1..Len(detailLogs) |-> detailLogs[i].log],
                        [logs |-> logs, db |-> db])
     IN  logs' = st.logs /\ db' = st.db
  /\ detailLogs' = <<>>
  /\ overlay' = {}
  /\ dialog' = DetailSavedToast
  /\ pc' = "detailSave"
  /\ download' = NoFile
  /\ UNCHANGED gtgVars
  /\ upload' = NoFile
  /\ UNCHANGED <<engineVars, settings, exercises, templates, quickCheckLogs, uuids>>

\* render(): the page is built anew, without the cards (the detailed log's
\* Cancel button, a change of tab, the end of a toast)
Render ==
  /\ overlay # {}
  /\ overlay' = {}
  /\ detailLogs' = <<>>
  /\ pc' = "render"
  /\ download' = NoFile
  /\ UNCHANGED gtgVars
  /\ upload' = NoFile
  /\ UNCHANGED <<engineVars, settings, logs, exercises, templates, db,
                 quickCheckLogs, dialog, uuids>>

\* undoLog()
UndoLog ==
  /\ logs # <<>>
  /\ Has(logs[1], "id")
  /\ db' = dbDelete(db, "logs", logs[1].id)
  /\ logs' = Tail(logs)
  /\ overlay' = {}
  /\ detailLogs' = <<>>
  /\ dialog' = UndoToast
  /\ pc' = "undoLog"
  /\ download' = NoFile
  /\ UNCHANGED gtgVars
  /\ upload' = NoFile
  /\ UNCHANGED <<engineVars, settings, exercises, templates, quickCheckLogs, uuids>>

\* deleteLog(id)
DeleteLog(id) ==
  /\ db' = dbDelete(db, "logs", id)
  /\ LET Other(log) == idOf(log) # id
     IN  logs' = SelectSeq(logs, Other)
  /\ overlay' = {}
  /\ detailLogs' = <<>>
  /\ pc' = "deleteLog"
  /\ download' = NoFile
  /\ UNCHANGED gtgVars
  /\ upload' = NoFile
  /\ UNCHANGED <<engineVars, settings, exercises, templates, quickCheckLogs, dialog,
                 uuids>>

\* saveExercise()
SaveExercise(type) ==
  /\ uuids < MaxIds
  /\ LET record == newExercise(uuid(uuids), type)
     IN  /\ db' = dbPut(db, "exercises", record)
         /\ exercises' = Append(exercises, record)
  /\ uuids' = uuids + 1
  /\ overlay' = {}
  /\ detailLogs' = <<>>
  /\ dialog' = ExerciseSavedToast
  /\ pc' = "saveExercise"
  /\ download' = NoFile
  /\ UNCHANGED gtgVars
  /\ upload' = NoFile
  /\ UNCHANGED <<engineVars, settings, logs, templates, quickCheckLogs>>

\* deleteExercise(id)
DeleteExercise(id) ==
  /\ db' = dbDelete(db, "exercises", id)
  /\ LET Other(e) == e.id # id
     IN  exercises' = SelectSeq(exercises, Other)
  /\ overlay' = {}
  /\ detailLogs' = <<>>
  /\ pc' = "deleteExercise"
  /\ download' = NoFile
  /\ UNCHANGED gtgVars
  /\ upload' = NoFile
  /\ UNCHANGED <<engineVars, settings, logs, templates, quickCheckLogs, dialog, uuids>>

\* saveTemplate(), with the items the editor has put together
SaveTemplate(items) ==
  /\ uuids < MaxIds
  /\ LET template == [id |-> uuid(uuids), items |-> items]
     IN  /\ db' = dbPut(db, "templates", template)
         /\ templates' = Append(templates, template)
  /\ uuids' = uuids + 1
  /\ overlay' = {}
  /\ detailLogs' = <<>>
  /\ dialog' = TemplateSavedToast
  /\ pc' = "saveTemplate"
  /\ download' = NoFile
  /\ UNCHANGED gtgVars
  /\ upload' = NoFile
  /\ UNCHANGED <<engineVars, settings, logs, exercises, quickCheckLogs>>

\* deleteTemplate(id)
DeleteTemplate(id) ==
  /\ db' = dbDelete(db, "templates", id)
  /\ LET Other(t) == t.id # id
     IN  templates' = SelectSeq(templates, Other)
  /\ overlay' = {}
  /\ detailLogs' = <<>>
  /\ pc' = "deleteTemplate"
  /\ download' = NoFile
  /\ UNCHANGED gtgVars
  /\ upload' = NoFile
  /\ UNCHANGED <<engineVars, settings, logs, exercises, quickCheckLogs, dialog, uuids>>

\* the onchange handler of an engine setting: saveSettings({...})
SaveSettings(key, value) ==
  /\ settings.progressionDefaults[key] # value
  /\ settings' = [settings EXCEPT !.progressionDefaults[key] = value]
  /\ db' = dbPut(db, "settings", settingsRecord(settings'))
  /\ pc' = "saveSettings"
  /\ download' = NoFile
  /\ UNCHANGED gtgVars
  /\ upload' = NoFile
  /\ UNCHANGED <<engineVars, logs, exercises, templates, quickCheckLogs, detailLogs,
                 overlay, dialog, uuids>>

\* exportJson()
ExportJson ==
  /\ download' = exportJson(exercises, logs, templates, settings)
  /\ UNCHANGED gtgVars
  /\ upload' = NoFile
  /\ pc' = "exportJson"
  /\ UNCHANGED <<engineVars, settings, logs, exercises, templates, db, quickCheckLogs,
                 detailLogs, overlay, dialog, uuids>>

\* importJson(file)
ImportJson(text) ==
  LET st == importJson(text, [exercises |-> exercises, logs |-> logs,
                              templates |-> templates, settings |-> settings,
                              db |-> db, failed |-> FALSE])
  IN  /\ text # NoFile
      /\ upload' = text
      /\ exercises' = st.exercises
      /\ logs' = st.logs
      /\ templates' = st.templates
      /\ settings' = st.settings
      /\ db' = st.db
      /\ dialog' = IF st.failed THEN InvalidJsonFile ELSE ImportCompleteToast
      /\ overlay' = IF st.failed THEN overlay ELSE {}
      /\ detailLogs' = IF st.failed THEN detailLogs ELSE <<>>
      /\ pc' = "importJson"
      /\ download' = NoFile
      /\ UNCHANGED gtgVars
      /\ UNCHANGED <<engineVars, quickCheckLogs, uuids>>

\* logging: the quick log and its quick check, the detailed log, the history
NextApp ==
  \/ \E i \in 1..Len(exercises) : QuickLog(<<[exerciseId |-> exercises[i].id]>>)
  \/ \E i \in 1..Len(templates) : QuickLog(templates[i].items)
  \/ \E i \in 1..MaxIds, metric \in {"rir", "pain0to10"}, value \in SliderValues :
       QuickInput(i, metric, value)
  \/ QuickSave
  \/ QuickSkip
  \/ \E i \in 1..Len(exercises) : OpenDetailLog(<<[exerciseId |-> exercises[i].id]>>)
  \/ \E i \in 1..Len(templates) : OpenDetailLog(templates[i].items)
  \/ \E i \in 1..MaxIds, input \in DetailInputs : DetailInput(i, input[1], input[2])
  \/ DetailSave
  \/ Render
  \/ UndoLog
  \/ \E i \in 1..Len(logs) : Has(logs[i], "id") /\ DeleteLog(logs[i].id)
  \/ \E items \in TemplateItemLists(exercises) : SaveTemplate(items)
  \/ \E i \in 1..Len(templates) : DeleteTemplate(templates[i].id)

SpecApp == InitApp /\ [][NextApp]_vars

\* the data are being changed: no backup has been written or read yet
Editing == pc \notin {"exportJson", "importJson"}

\* the backup: exercises, logs, templates and settings are changed, then the
\* backup is written and a file is read, which ends the session
NextBackup ==
  \/ Editing /\ SaveExercise("weighted")
  \/ \E id \in LastExercise(exercises) : Editing /\ DeleteExercise(id)
  \/ \E items \in TemplateItemLists(exercises) : Editing /\ SaveTemplate(items)
  \/ \E i \in 1..Len(templates) : Editing /\ DeleteTemplate(templates[i].id)
  \/ \E i \in 1..Len(exercises) :
       Editing /\ QuickLog(<<[exerciseId |-> exercises[i].id]>>)
  \/ \E i \in 1..Len(templates) : Editing /\ QuickLog(templates[i].items)
  \/ \E i \in 1..MaxIds, value \in SliderValues : Editing /\ QuickInput(i, "rir", value)
  \/ Editing /\ UndoLog
  \/ \E input \in EngineInputs : Editing /\ SaveSettings(input[1], input[2])
  \/ Editing /\ ExportJson
  \/ pc = "exportJson" /\ ImportJson(download)
  \/ pc # "importJson" /\ ImportJson(TruncatedFile)
  \/ pc # "importJson" /\ ImportJson(ForeignBackup)

SpecBackup == InitApp /\ [][NextBackup]_vars

----------------------------------------------------------------------------
(* The GTG variant, src/docs/app.js: the intensity of an exercise.         *)
(* Intensities are in hundredths; null is 0, which a timestamp never is.   *)

INTENSITY_MIN == 30
INTENSITY_MAX == 70
DELOAD_DAYS == 7
null == 0

\* NaN, and a string of a backup file that is no number: Math.max and Math.min
\* make NaN of it
NaN == -1
Text == -2

\* GTG_INTENSITY_PRESETS.normal when the value is undefined or NaN, else the
\* clamp
normalizeIntensity(obj) ==
  IF ~Has(obj, "intensityPct") \/ obj.intensityPct = NaN THEN 50
  ELSE IF obj.intensityPct = Text THEN NaN
  ELSE clamp(obj.intensityPct, INTENSITY_MIN, INTENSITY_MAX)

\* the baseline that normalizeExerciseRecord fills in; loadKg is in half kg
normalizeBaseline(record) ==
  LET baseline == OrElse(record, "baseline", Empty)
      range == OrElse(record, "repRange", Empty)
      hold == OrElse(record, "durationRangeSec", Empty)
      own == IF record.type = "reps"
             THEN [maxCleanReps |->
                     OrElse(baseline, "maxCleanReps", OrElse(range, "max", 10))]
             ELSE IF record.type = "weighted"
             THEN [topSet |->
                     OrElse(baseline, "topSet",
                            [reps |-> OrElse(range, "max", 8),
                             loadKg |-> IF OrElse(record, "loadIncrementKg", 0) # 0
                                        THEN record.loadIncrementKg * 4 ELSE 40])]
             ELSE [maxCleanHoldSec |->
                     OrElse(baseline, "maxCleanHoldSec", OrElse(hold, "max", 30))]
  IN  [intensityPct |-> normalizeIntensity(baseline)] @@ own @@ baseline

normalizeExerciseRecord(record) ==
  [baseline |-> normalizeBaseline(record),
   deloadUntil |-> OrElse(record, "deloadUntil", null)] @@ record

\* what the call leaves in state.exercises when it saves nothing: the baseline
\* of the record is filled in place when the record has one
normalizedInPlace(record) ==
  IF Has(record, "baseline")
  THEN [record EXCEPT !.baseline = normalizeBaseline(record)]
  ELSE record

\* the newest three complete logs of the exercise
recentLogs(lgs, exerciseId) ==
  LET Mine(log) == log.exerciseId = exerciseId /\ log.status = "complete"
  IN  slice0(sortNewestFirst(SelectSeq(lgs, Mine)), 3)

\* mutant: a deload that is active is not set anew
updatedExercise_KeepDeload(this, recent, t) ==
  LET deloadActive == this.deloadUntil # null /\ t < this.deloadUntil
      High(log) == Has(log, "pain0to10") /\ log.pain0to10 >= 5
      Warn(log) == Has(log, "pain0to10") /\ log.pain0to10 >= 3
      Effort(log) == Has(log, "rir") /\ log.rir <= 2
      Easy(log) == /\ Has(log, "rir") /\ log.rir >= 5
                   /\ Has(log, "pain0to10") /\ log.pain0to10 <= 2
      hasPainHigh == \E i \in 1..Len(recent) : High(recent[i])
      intensity == normalizeIntensity(this.baseline)
      nextIntensity ==
        IF hasPainHigh THEN INTENSITY_MIN
        ELSE IF deloadActive THEN intensity
        ELSE IF \E i \in 1..Len(recent) : Warn(recent[i]) \/ Effort(recent[i])
        THEN Max2(INTENSITY_MIN, intensity - 5)
        ELSE IF Len(recent) >= 3 /\ \A i \in 1..Len(recent) : Easy(recent[i])
        THEN Min2(INTENSITY_MAX, intensity + 2)
        ELSE intensity
      nextDeloadUntil ==
        IF hasPainHigh /\ ~deloadActive THEN t + DELOAD_DAYS * DAY_MS
        ELSE this.deloadUntil
  IN  [this EXCEPT !.baseline.intensityPct = nextIntensity,
                   !.deloadUntil = nextDeloadUntil]

\* mutant: the intensity is raised as soon as the logs at hand are easy
updatedExercise_RaiseEarly(this, recent, t) ==
  LET deloadActive == this.deloadUntil # null /\ t < this.deloadUntil
      High(log) == Has(log, "pain0to10") /\ log.pain0to10 >= 5
      Warn(log) == Has(log, "pain0to10") /\ log.pain0to10 >= 3
      Effort(log) == Has(log, "rir") /\ log.rir <= 2
      Easy(log) == /\ Has(log, "rir") /\ log.rir >= 5
                   /\ Has(log, "pain0to10") /\ log.pain0to10 <= 2
      hasPainHigh == \E i \in 1..Len(recent) : High(recent[i])
      intensity == normalizeIntensity(this.baseline)
      nextIntensity ==
        IF hasPainHigh THEN INTENSITY_MIN
        ELSE IF deloadActive THEN intensity
        ELSE IF \E i \in 1..Len(recent) : Warn(recent[i]) \/ Effort(recent[i])
        THEN Max2(INTENSITY_MIN, intensity - 5)
        ELSE IF \A i \in 1..Len(recent) : Easy(recent[i])
        THEN Min2(INTENSITY_MAX, intensity + 2)
        ELSE intensity
      nextDeloadUntil ==
        IF hasPainHigh THEN t + DELOAD_DAYS * DAY_MS ELSE this.deloadUntil
  IN  [this EXCEPT !.baseline.intensityPct = nextIntensity,
                   !.deloadUntil = nextDeloadUntil]

\* the record `updated` of adjustExerciseIntensity
updatedExercise(this, recent, t) ==
  LET deloadActive == this.deloadUntil # null /\ t < this.deloadUntil
      High(log) == Has(log, "pain0to10") /\ log.pain0to10 >= 5
      Warn(log) == Has(log, "pain0to10") /\ log.pain0to10 >= 3
      Effort(log) == Has(log, "rir") /\ log.rir <= 2
      Easy(log) == /\ Has(log, "rir") /\ log.rir >= 5
                   /\ Has(log, "pain0to10") /\ log.pain0to10 <= 2
      hasPainHigh == \E i \in 1..Len(recent) : High(recent[i])
      intensity == normalizeIntensity(this.baseline)
      nextIntensity ==
        IF hasPainHigh THEN INTENSITY_MIN
        ELSE IF deloadActive THEN intensity
        ELSE IF \E i \in 1..Len(recent) : Warn(recent[i]) \/ Effort(recent[i])
        THEN Max2(INTENSITY_MIN, intensity - 5)
        ELSE IF Len(recent) >= 3 /\ \A i \in 1..Len(recent) : Easy(recent[i])
        THEN Min2(INTENSITY_MAX, intensity + 2)
        ELSE intensity
      nextDeloadUntil ==
        IF hasPainHigh THEN t + DELOAD_DAYS * DAY_MS ELSE this.deloadUntil
  IN  [this EXCEPT !.baseline.intensityPct = nextIntensity,
                   !.deloadUntil = nextDeloadUntil]

\* mutant: the record that is saved is the one that was read
adjustExerciseIntensity_PutRead(exs, lgs, exerciseId, t) ==
  LET hits == {i \in 1..Len(exs) : exs[i].id = exerciseId}
  IN  IF hits = {} THEN [exercises |-> exs, put |-> <<>>]
      ELSE LET exerciseIndex == CHOOSE i \in hits : \A j \in hits : i <= j
               this == normalizeExerciseRecord(exs[exerciseIndex])
               recent == recentLogs(lgs, exerciseId)
               updated == updatedExercise(this, recent, t)
               inPlace == [exs EXCEPT ![exerciseIndex] = normalizedInPlace(@)]
           IN  IF recent = <<>> \/ updated = this
               THEN [exercises |-> inPlace, put |-> <<>>]
               ELSE [exercises |-> [exs EXCEPT ![exerciseIndex] = updated],
                     put |-> <<this>>]

\* adjustExerciseIntensity up to its await: state.exercises after the call and
\* the record it hands to dbPut, if any
adjustExerciseIntensity(exs, lgs, exerciseId, t) ==
  LET hits == {i \in 1..Len(exs) : exs[i].id = exerciseId}
  IN  IF hits = {} THEN [exercises |-> exs, put |-> <<>>]
      ELSE LET exerciseIndex == CHOOSE i \in hits : \A j \in hits : i <= j
               this == normalizeExerciseRecord(exs[exerciseIndex])
               recent == recentLogs(lgs, exerciseId)
               updated == updatedExercise(this, recent, t)
               inPlace == [exs EXCEPT ![exerciseIndex] = normalizedInPlace(@)]
           IN  IF recent = <<>> \/ updated = this
               THEN [exercises |-> inPlace, put |-> <<>>]
               ELSE [exercises |-> [exs EXCEPT ![exerciseIndex] = updated],
                     put |-> <<updated>>]

\* getEffectiveIntensity(exercise, now)
getEffectiveIntensity(this, t) ==
  LET deloadActive == OrElse(this, "deloadUntil", null) # null /\ t < this.deloadUntil
  IN  [intensityPct |-> IF deloadActive THEN INTENSITY_MIN
                        ELSE normalizeIntensity(OrElse(this, "baseline", Empty)),
       deloadActive |-> deloadActive]

\* computeNextTarget of the GTG classes; the explanation is left out
gtgComputeNextTarget(this, t) ==
  LET effective == getEffectiveIntensity(this, t)
      pct == effective.intensityPct
      topSet == OrElse(this.baseline, "topSet", [reps |-> 1, loadKg |-> 0])
  IN  IF this.type = "reps"
      THEN [metricType |-> "reps",
            reps |-> Max2(1, RoundPct(OrElse(this.baseline, "maxCleanReps", 1), pct)),
            deload |-> effective.deloadActive]
      ELSE IF this.type = "weighted"
      THEN [metricType |-> "weightedReps",
            reps |-> Max2(1, RoundPct(OrElse(topSet, "reps", 1), pct)),
            loadKg |-> OrElse(topSet, "loadKg", 0),
            deload |-> effective.deloadActive]
      ELSE [metricType |-> "isometric",
            durationSec |-> Max2(5, RoundPct(OrElse(this.baseline, "maxCleanHoldSec", 5), pct)),
            deload |-> effective.deloadActive]

\* ---- the Save handlers and the event loop ----

\* how many logs are completed in one run
MaxEvents == 3

\* the two Save handlers that run at the same time
Handlers == {1, 2}

\* what the inputs of the detail log can be left at
Feelings ==
  {[rir |-> 6, pain0to10 |-> 0], [rir |-> 2, pain0to10 |-> 0],
   [rir |-> 4, pain0to10 |-> 5]}

\* what the sliders of the quick check can be moved to
SliderFeelings == {[rir |-> 6, pain0to10 |-> 0]}

\* ensureDefaults of app.js: Push-ups
gtgPushUps ==
  normalizeExerciseRecord(
    [id |-> 1, type |-> "reps",
     baseline |-> [maxCleanReps |-> 20, intensityPct |-> 50]])

\* ensureDefaults of app.js: Wall Sit
gtgWallSit ==
  normalizeExerciseRecord(
    [id |-> 1, type |-> "isometric",
     baseline |-> [maxCleanHoldSec |-> 60, intensityPct |-> 50]])

\* the log of the exercise as quickLog and openDetailLog make it: the metrics
\* are those of the target
gtgLog(id, record, t) ==
  [id |-> id, timestamp |-> t, exerciseId |-> record.id, status |-> "complete"]
    @@ TargetMetrics(gtgComputeNextTarget(normalizeExerciseRecord(record), t))

idle == [pc |-> "idle", kind |-> "", log |-> Empty, store |-> "", value |-> Empty]

\* the application after loadStore, with one exercise out of a set
gtgLoaded(records) ==
  /\ exercise = PushUps
  /\ settings = [progressionDefaults |-> defaultProgression]
  /\ logs = <<>>
  /\ now = Now0
  /\ pc = "loadStore"
  /\ target = NoTarget
  /\ again = NoTarget
  /\ FnIdle
  /\ \E record \in records :
       /\ exercises = <<record>>
       /\ db = [EmptyDb EXCEPT !.exercises = {record}]
  /\ templates = <<>>
  /\ quickCheckLogs = <<>>
  /\ detailLogs = <<>>
  /\ overlay = {}
  /\ download = NoFile
  /\ upload = NoFile
  /\ dialog = ""
  /\ uuids = 0
  /\ handlers = [p \in Handlers |-> idle]
  /\ jobs = <<>>
  /\ transactions = <<>>

InitGtg == gtgLoaded({gtgPushUps})

gtgRest ==
  <<exercise, settings, target, again, fnVars, templates, quickCheckLogs,
    detailLogs, overlay, download, upload, dialog>>

\* a task of the event loop starts only when no microtask is left
TaskTurn == jobs = <<>>

\* dbPut up to its `await dbPromise`
callDbPut(h, storeName, value) ==
  [h EXCEPT !.pc = "dbPut", !.store = storeName, !.value = value]

\* the Save button of the detail log: the log passes validateLog, then
\* await dbPut("logs", log)
DetailSaveClick(p, feeling) ==
  /\ TaskTurn
  /\ handlers[p].pc = "idle"
  /\ exercises # <<>>
  /\ uuids < MaxEvents
  /\ LET log == gtgLog(uuid(uuids), exercises[1], now) @@ feeling
     IN  handlers' = [handlers EXCEPT
                        ![p] = callDbPut([@ EXCEPT !.kind = "detail", !.log = log],
                                         "logs", log)]
  /\ jobs' = <<p>>
  /\ uuids' = uuids + 1
  /\ pc' = "detailSaveClick"
  /\ UNCHANGED <<exercises, logs, db, now, transactions, gtgRest>>

\* quickLog has run: the log is saved and in state.logs, the quick check is open
GtgQuickLog(p) ==
  /\ TaskTurn
  /\ handlers[p].pc = "idle"
  /\ uuids < MaxEvents
  /\ LET log == gtgLog(uuid(uuids), exercises[1], now)
     IN  /\ logs' = <<log>> \o logs
         /\ db' = dbPut(db, "logs", log)
         /\ handlers' = [handlers EXCEPT ![p] = [@ EXCEPT !.pc = "quickCheck",
                                                        !.kind = "quick",
                                                        !.log = log]]
  /\ uuids' = uuids + 1
  /\ pc' = "quickLog"
  /\ UNCHANGED <<exercises, now, jobs, transactions, gtgRest>>

\* the sliders of the quick check write to the log, which is in state.logs
GtgQuickInput(p, feeling) ==
  /\ TaskTurn
  /\ handlers[p].pc = "quickCheck"
  /\ LET log == feeling @@ handlers[p].log
     IN  /\ log # handlers[p].log
         /\ logs' = [i \in 1..Len(logs) |->
                       IF logs[i].id = log.id THEN log ELSE logs[i]]
         /\ handlers' = [handlers EXCEPT ![p].log = log]
  /\ pc' = "quickInput"
  /\ UNCHANGED <<exercises, db, now, uuids, jobs, transactions, gtgRest>>

\* the Save button of the quick check: await dbPut("logs", log)
QuickSaveClick(p) ==
  /\ TaskTurn
  /\ handlers[p].pc = "quickCheck"
  /\ handlers' = [handlers EXCEPT ![p] = callDbPut(@, "logs", @.log)]
  /\ jobs' = <<p>>
  /\ pc' = "quickSaveClick"
  /\ UNCHANGED <<exercises, logs, db, now, uuids, transactions, gtgRest>>

\* dbPut after `await dbPromise`: the transaction is created and the put is
\* requested
DbPutRequest(p) ==
  /\ jobs # <<>> /\ Head(jobs) = p
  /\ handlers[p].pc = "dbPut"
  /\ transactions' = Append(transactions,
                            [by |-> p, store |-> handlers[p].store,
                             value |-> handlers[p].value])
  /\ handlers' = [handlers EXCEPT ![p].pc = "await"]
  /\ jobs' = Tail(jobs)
  /\ pc' = "dbPut"
  /\ UNCHANGED <<exercises, logs, db, now, uuids, gtgRest>>

\* IndexedDB runs the readwrite transactions in the order of their creation;
\* request.onsuccess resolves the promise of dbPut
Commit ==
  /\ TaskTurn
  /\ transactions # <<>>
  /\ Has(Head(transactions), "value")
  /\ LET tx == Head(transactions)
     IN  /\ db' = dbPut(db, tx.store, tx.value)
         /\ handlers' = [handlers EXCEPT ![tx.by].pc = "resume"]
         /\ jobs' = <<tx.by>>
  /\ transactions' = Tail(transactions)
  /\ pc' = "onsuccess"
  /\ UNCHANGED <<exercises, logs, now, uuids, gtgRest>>

\* the handler after `await dbPut("logs", log)`: state.logs.unshift(log) in the
\* detail log, then adjustExerciseIntensity(log.exerciseId, Date.now()) up to
\* its await, or to the end of the handler when nothing is saved
AdjustIntensity(p) ==
  /\ jobs # <<>> /\ Head(jobs) = p
  /\ handlers[p].pc = "resume"
  /\ handlers[p].store = "logs"
  /\ logs' = IF handlers[p].kind = "detail" THEN <<handlers[p].log>> \o logs
             ELSE logs
  /\ LET adjusted == adjustExerciseIntensity(exercises, logs',
                                             handlers[p].log.exerciseId, now)
     IN  /\ exercises' = adjusted.exercises
         /\ IF adjusted.put = <<>>
            THEN /\ handlers' = [handlers EXCEPT ![p] = idle]
                 /\ jobs' = Tail(jobs)
            ELSE /\ handlers' = [handlers EXCEPT
                                   ![p] = callDbPut(@, "exercises", adjusted.put[1])]
                 /\ jobs' = Append(Tail(jobs), p)
  /\ pc' = "adjustExerciseIntensity"
  /\ UNCHANGED <<db, now, uuids, transactions, gtgRest>>

\* the handler after `await adjustExerciseIntensity(...)`: it ends
SaveDone(p) ==
  /\ jobs # <<>> /\ Head(jobs) = p
  /\ handlers[p].pc = "resume"
  /\ handlers[p].store = "exercises"
  /\ handlers' = [handlers EXCEPT ![p] = idle]
  /\ jobs' = Tail(jobs)
  /\ pc' = "render"
  /\ UNCHANGED <<exercises, logs, db, now, uuids, transactions, gtgRest>>

\* a week passes, once
WeekLater ==
  /\ TaskTurn
  /\ now = Now0
  /\ now' = now + DELOAD_DAYS * DAY_MS
  /\ pc' = "later"
  /\ UNCHANGED <<exercises, logs, db, uuids, gtgVars, gtgRest>>

NextGtg ==
  \/ \E p \in Handlers, feeling \in Feelings : DetailSaveClick(p, feeling)
  \/ \E p \in Handlers : GtgQuickLog(p)
  \/ \E p \in Handlers, feeling \in SliderFeelings : GtgQuickInput(p, feeling)
  \/ \E p \in Handlers : QuickSaveClick(p)
  \/ \E p \in Handlers : DbPutRequest(p)
  \/ Commit
  \/ \E p \in Handlers : AdjustIntensity(p)
  \/ \E p \in Handlers : SaveDone(p)
  \/ WeekLater

SpecGtg == InitGtg /\ [][NextGtg]_vars

\* ---- one Save handler at a time, from more starting points ----

\* Push-ups as saveExercise makes them with an intensity of its own, and the
\* starter exercises under a deload whose log has been deleted since
GtgStart ==
  {[gtgPushUps EXCEPT !.baseline.intensityPct = pct] : pct \in {50, 32, 69}}
  \cup {[record EXCEPT !.baseline.intensityPct = INTENSITY_MIN,
                       !.deloadUntil = Now0 + DELOAD_DAYS * DAY_MS] :
          record \in {gtgPushUps, gtgWallSit}}

InitIntensity == gtgLoaded(GtgStart)

\* four days pass, not while a put is under way; time goes on for a week, and
\* as long as a deload is active
Pass ==
  /\ TaskTurn
  /\ handlers[1].pc = "idle"
  /\ \/ now < Now0 + DELOAD_DAYS * DAY_MS
     \/ getEffectiveIntensity(exercises[1], now).deloadActive
  /\ now' = now + 4 * DAY_MS
  /\ pc' = "later"
  /\ UNCHANGED <<exercises, logs, db, uuids, gtgVars, gtgRest>>

\* what the event loop does by itself
EventLoop ==
  \/ DbPutRequest(1)
  \/ Commit
  \/ AdjustIntensity(1)
  \/ SaveDone(1)

NextIntensity ==
  \/ \E feeling \in Feelings \cup {Empty} : DetailSaveClick(1, feeling)
  \/ EventLoop
  \/ Pass

SpecIntensity == InitIntensity /\ [][NextIntensity]_vars

\* the event loop does not stall and time does not stop
SpecIntensityFair == SpecIntensity /\ WF_vars(EventLoop) /\ WF_vars(Pass)

\* ---- loadStore, saveExercise, importJson and resetAll of app.js ----

\* the records of an object store as getAll returns them: in the order of
\* their keys
RECURSIVE ById(_)
ById(records) ==
  IF records = {} THEN <<>>
  ELSE LET first == CHOOSE r \in records : \A other \in records : r.id <= other.id
       IN  <<first>> \o ById(records \ {first})

\* ensureDefaults of app.js after n calls of uuid(): the starter exercises
gtgStarters(n) ==
  <<[gtgPushUps EXCEPT !.id = uuid(n)],
    normalizeExerciseRecord(
      [id |-> uuid(n + 1), type |-> "weighted",
       baseline |-> [topSet |-> [reps |-> 8, loadKg |-> 120], intensityPct |-> 50]]),
    [gtgWallSit EXCEPT !.id = uuid(n + 2)]>>

\* ensureDefaults: state.exercises, the store and the count of uuid() calls
gtgEnsureDefaults(st) ==
  IF st.exercises # <<>> THEN st
  ELSE [st EXCEPT !.exercises = gtgStarters(st.uuids),
                  !.db = putEach(@, "exercises", gtgStarters(st.uuids)).db,
                  !.uuids = @ + 3]

\* mutant: the logs are left in the order of the store
storedLogs_Unsorted(database) == ById(database.logs)

\* state.logs of loadStore: the stored logs, newest first
storedLogs(database) == sortNewestFirst(ById(database.logs))

\* loadStore of app.js: every stored exercise is normalized; normalizing fills
\* the baseline of the stored record in place, so that the record is put back
\* only when it has no baseline or no deloadUntil
gtgLoadStore(database, stg, n) ==
  LET stored == ById(database.exercises)
      normalized == [i \in 1..Len(stored) |-> normalizeExerciseRecord(stored[i])]
      Changed(record) == normalizeExerciseRecord(record) # normalizedInPlace(record)
      saved == SelectSeq(stored, Changed)
      puts == [i \in 1..Len(saved) |-> normalizeExerciseRecord(saved[i])]
      found == {r \in database.settings : r.id = "app"}
  IN  gtgEnsureDefaults(
        [exercises |-> normalized,
         logs |-> storedLogs(database),
         templates |-> ById(database.templates),
         settings |-> IF found = {} THEN stg ELSE (CHOOSE r \in found : TRUE).value,
         db |-> putEach(database, "exercises", puts).db,
         uuids |-> n])

\* the form of the exercise editor: the intensity input holds
\* Number(event.target.value), which is 0 for an empty input
ExerciseForms ==
  {[maxCleanReps |-> form[1], intensityAdvanced |-> form[2], intensityPct |-> form[3]] :
     form \in {<<0, FALSE, 50>>, <<12, FALSE, 50>>, <<12, TRUE, 0>>, <<12, TRUE, 90>>}}

\* saveExercise of app.js for an exercise of type reps; no record when the
\* form is not valid
gtgNewExercise(id, form) ==
  IF form.maxCleanReps < 1 THEN <<>>
  ELSE <<normalizeExerciseRecord(
           [id |-> id, type |-> "reps",
            baseline |-> [maxCleanReps |-> form.maxCleanReps,
                          intensityPct |-> IF form.intensityAdvanced
                                           THEN normalizeIntensity(form)
                                           ELSE 50]])>>

\* an exercise of a backup file
backupExercise(id, baseline) == [id |-> id, type |-> "reps", baseline |-> baseline]

\* what JSON.parse makes of the backup files: backups of other installations,
\* with an intensity of an older range, with none, and with one that is text
GtgBackups ==
  {[exercises |-> <<backupExercise(2, baseline)>>, logs |-> <<>>] :
     baseline \in {[maxCleanReps |-> 10, intensityPct |-> 90],
                   [maxCleanReps |-> 10, intensityPct |-> 10],
                   [maxCleanReps |-> 10],
                   [maxCleanReps |-> 10, intensityPct |-> Text]}}

\* importJson of app.js after JSON.parse
gtgImportJson(data, st) ==
  LET records == IF Has(data, "exercises") THEN data.exercises ELSE <<>>
      normalized == [i \in 1..Len(records) |-> normalizeExerciseRecord(records[i])]
      exs == IF Has(data, "exercises")
             THEN [st EXCEPT !.exercises = normalized,
                             !.db = putEach(@, "exercises", normalized).db]
             ELSE st
      lgs == importArray(data, "logs", exs @@ [failed |-> FALSE])
      tpls == importArray(data, "templates", lgs)
  IN  IF ~Has(data, "settings") THEN tpls
      ELSE [tpls EXCEPT !.settings = data.settings,
                        !.db = dbPut(@, "settings", settingsRecord(data.settings))]

\* the application before loadStore: a new installation, and the store of the
\* application before it had baselines
InitDojo ==
  /\ exercise = PushUps
  /\ settings = [progressionDefaults |-> defaultProgression]
  /\ logs = <<>>
  /\ now = Now0
  /\ pc = "start"
  /\ target = NoTarget
  /\ again = NoTarget
  /\ FnIdle
  /\ exercises = <<>>
  /\ db \in {EmptyDb, [EmptyDb EXCEPT !.exercises = {[id |-> 1] @@ PushUps}]}
  /\ templates = <<>>
  /\ quickCheckLogs = <<>>
  /\ detailLogs = <<>>
  /\ overlay = {}
  /\ download = NoFile
  /\ upload = NoFile
  /\ dialog = ""
  /\ uuids = 0
  /\ handlers = [p \in Handlers |-> idle]
  /\ jobs = <<>>
  /\ transactions = <<>>

dojoRest ==
  <<exercise, target, again, fnVars, quickCheckLogs, detailLogs, overlay,
    download, upload, now, gtgVars>>

\* no handler is under way
Quiet ==
  /\ TaskTurn
  /\ transactions = <<>>
  /\ \A p \in Handlers : handlers[p].pc = "idle"

\* what a handler leaves in the state and in the store
Leaves(st) ==
  /\ exercises' = st.exercises
  /\ logs' = st.logs
  /\ templates' = st.templates
  /\ settings' = st.settings
  /\ db' = st.db
  /\ uuids' = st.uuids

Held ==
  [exercises |-> exercises, logs |-> logs, templates |-> templates,
   settings |-> settings, db |-> db, uuids |-> uuids]

\* the page is opened, or opened again
GtgLoadStore ==
  /\ Quiet
  /\ Leaves(gtgLoadStore(db, [progressionDefaults |-> defaultProgression], uuids))
  /\ pc' = "loadStore"
  /\ dialog' = ""
  /\ UNCHANGED dojoRest

\* the Save button of the exercise editor
GtgSaveExercise(form) ==
  /\ Quiet
  /\ pc # "start"
  /\ uuids < MaxEvents
  /\ LET made == gtgNewExercise(uuid(uuids), form)
     IN  IF made = <<>>
         THEN /\ dialog' = "Enter a valid max clean reps."
              /\ UNCHANGED <<exercises, db, uuids>>
         ELSE /\ dialog' = ExerciseSavedToast
              /\ exercises' = exercises \o made
              /\ db' = dbPut(db, "exercises", made[1])
              /\ uuids' = uuids + 1
  /\ pc' = "saveExercise"
  /\ UNCHANGED <<logs, templates, settings, dojoRest>>

\* a backup file is chosen
GtgImportJson(data) ==
  /\ Quiet
  /\ pc # "start"
  /\ Leaves(gtgImportJson(data, Held))
  /\ pc' = "importJson"
  /\ dialog' = ImportCompleteToast
  /\ UNCHANGED dojoRest

\* a file that is no JSON is chosen: the alert of the catch block
GtgImportInvalid ==
  /\ Quiet
  /\ pc \notin {"start", "alert"}
  /\ pc' = "alert"
  /\ dialog' = "Invalid JSON file."
  /\ UNCHANGED <<exercises, logs, templates, settings, db, uuids, dojoRest>>

\* Reset, confirmed: the four stores are cleared in one transaction
GtgResetAll ==
  /\ Quiet
  /\ pc # "start"
  /\ uuids < MaxEvents
  /\ LET stg == [progressionDefaults |-> defaultProgression]
     IN  Leaves(gtgEnsureDefaults(
                  [exercises |-> <<>>, logs |-> <<>>, templates |-> <<>>,
                   settings |-> stg,
                   db |-> dbPut(EmptyDb, "settings", settingsRecord(stg)),
                   uuids |-> uuids]))
  /\ pc' = "resetAll"
  /\ dialog' = ""
  /\ UNCHANGED dojoRest

NextDojo ==
  \/ GtgLoadStore
  \/ \E form \in ExerciseForms : GtgSaveExercise(form)
  \/ \E data \in GtgBackups : GtgImportJson(data)
  \/ GtgImportInvalid
  \/ GtgResetAll
  \/ pc # "start" /\ \E feeling \in Feelings : DetailSaveClick(1, feeling)
  \/ EventLoop

SpecDojo == InitDojo /\ [][NextDojo]_vars

\* ---- deleteExercise while a log is being saved ----

\* the Delete button of the first exercise: deleteExercise(id) and dbDelete up
\* to its `await dbPromise`
DeleteExerciseClick(p) ==
  /\ TaskTurn
  /\ handlers[p].pc = "idle"
  /\ exercises # <<>>
  /\ handlers' = [handlers EXCEPT ![p] = [@ EXCEPT !.pc = "dbDelete",
                                                 !.kind = "delete",
                                                 !.store = "exercises",
                                                 !.value = [id |-> exercises[1].id]]]
  /\ jobs' = <<p>>
  /\ pc' = "deleteExerciseClick"
  /\ UNCHANGED <<exercises, logs, db, now, uuids, transactions, gtgRest>>

\* dbDelete after `await dbPromise`: the transaction is created and the delete
\* is requested
DbDeleteRequest(p) ==
  /\ jobs # <<>> /\ Head(jobs) = p
  /\ handlers[p].pc = "dbDelete"
  /\ transactions' = Append(transactions,
                            [by |-> p, store |-> handlers[p].store,
                             key |-> handlers[p].value.id])
  /\ handlers' = [handlers EXCEPT ![p].pc = "await"]
  /\ jobs' = Tail(jobs)
  /\ pc' = "dbDelete"
  /\ UNCHANGED <<exercises, logs, db, now, uuids, gtgRest>>

\* the transaction of a delete is run; request.onsuccess resolves the promise
\* of dbDelete
CommitDelete ==
  /\ TaskTurn
  /\ transactions # <<>>
  /\ Has(Head(transactions), "key")
  /\ LET tx == Head(transactions)
     IN  /\ db' = dbDelete(db, tx.store, tx.key)
         /\ handlers' = [handlers EXCEPT ![tx.by].pc = "resume"]
         /\ jobs' = <<tx.by>>
  /\ transactions' = Tail(transactions)
  /\ pc' = "onsuccess"
  /\ UNCHANGED <<exercises, logs, now, uuids, gtgRest>>

\* deleteExercise after `await dbDelete(...)`: the exercise is taken out of
\* state.exercises, and the handler ends
DeleteExerciseDone(p) ==
  /\ jobs # <<>> /\ Head(jobs) = p
  /\ handlers[p].pc = "resume"
  /\ handlers[p].kind = "delete"
  /\ LET Other(record) == record.id # handlers[p].value.id
     IN  exercises' = SelectSeq(exercises, Other)
  /\ handlers' = [handlers EXCEPT ![p].pc = "done"]
  /\ jobs' = Tail(jobs)
  /\ pc' = "render"
  /\ UNCHANGED <<logs, db, now, uuids, transactions, gtgRest>>

NextDelete ==
  \/ \E feeling \in Feelings : DetailSaveClick(1, feeling)
  \/ EventLoop
  \/ DeleteExerciseClick(2)
  \/ DbDeleteRequest(2)
  \/ CommitDelete
  \/ DeleteExerciseDone(2)

SpecDelete == InitGtg /\ [][NextDelete]_vars

\* ---- quickLog, the detailed log, undoLog and deleteLog of app.js ----

\* the log in the units of the form, in which validateLog is written
InFormUnits(log) ==
  [f \in DOMAIN log |->
     IF f \in {"reps", "loadKg", "durationSec"} THEN log[f] * FormUnit ELSE log[f]]

\* the log that quickLog and openDetailLog of app.js make for one item
gtgItemLog(id, item, record, t) ==
  [id |-> id, timestamp |-> t, exerciseId |-> record.id, status |-> "complete"]
    @@ TargetMetrics(IF OrElse(item, "targetMode", "auto") = "fixed"
                        /\ Has(item, "fixedTarget")
                     THEN item.fixedTarget
                     ELSE gtgComputeNextTarget(normalizeExerciseRecord(record), t))

\* quickLog of app.js, the loop over the selection: a log that validateLog
\* rejects ends the loop; the logs before it have been put and unshifted
RECURSIVE gtgQuickLog(_, _, _)
gtgQuickLog(selection, st, t) ==
  IF selection = <<>> THEN st
  ELSE LET found == FindById(st.exercises, Head(selection).exerciseId)
       IN  IF found = <<>> THEN gtgQuickLog(Tail(selection), st, t)
           ELSE LET log == gtgItemLog(uuid(st.uuids), Head(selection), found[1], t)
                    validation == GtgValidateLog(found[1], InFormUnits(log))
                IN  IF ~validation.valid
                    THEN [st EXCEPT !.uuids = @ + 1, !.errors = validation.errors]
                    ELSE gtgQuickLog(Tail(selection),
                                     [st EXCEPT !.uuids = @ + 1,
                                                !.db = dbPut(@, "logs", log),
                                                !.logs = <<log>> \o @,
                                                !.made = Append(@, log.id)],
                                     t)

\* the entries of the detailed log
RECURSIVE gtgDetailLogs(_, _, _, _)
gtgDetailLogs(selection, exs, t, n) ==
  IF selection = <<>> THEN <<>>
  ELSE LET found == FindById(exs, Head(selection).exerciseId)
       IN  IF found = <<>> THEN gtgDetailLogs(Tail(selection), exs, t, n)
           ELSE <<[exercise |-> found[1],
                   log |-> gtgItemLog(uuid(n), Head(selection), found[1], t)]>>
                  \o gtgDetailLogs(Tail(selection), exs, t, n + 1)

\* the errors of the first entry that validateLog rejects
RECURSIVE firstErrors(_)
firstErrors(entries) ==
  IF entries = <<>> THEN <<>>
  ELSE LET validation == GtgValidateLog(Head(entries).exercise,
                                        InFormUnits(Head(entries).log))
       IN  IF validation.valid THEN firstErrors(Tail(entries)) ELSE validation.errors

\* await adjustExerciseIntensity(exerciseId, Date.now()), to its end
adjusted(st, exerciseId, t) ==
  LET call == adjustExerciseIntensity(st.exercises, st.logs, exerciseId, t)
  IN  [st EXCEPT !.exercises = call.exercises,
                 !.db = IF call.put = <<>> THEN @ ELSE dbPut(@, "exercises", call.put[1])]

\* the second loop of the detailed log's Save
RECURSIVE gtgSaveDetail(_, _, _)
gtgSaveDetail(entries, st, t) ==
  IF entries = <<>> THEN st
  ELSE gtgSaveDetail(Tail(entries),
                     adjusted([st EXCEPT !.db = dbPut(@, "logs", Head(entries).log),
                                         !.logs = <<Head(entries).log>> \o @],
                              Head(entries).log.exerciseId, t),
                     t)

\* the quick check's Save: the logs are put again, then the intensity of each
\* of their exercises is adjusted
RECURSIVE adjustedEach(_, _, _)
adjustedEach(quick, st, t) ==
  IF quick = <<>> THEN st
  ELSE LET held == FindById(st.logs, Head(quick))
       IN  adjustedEach(Tail(quick),
                        IF held = <<>> THEN st ELSE adjusted(st, held[1].exerciseId, t),
                        t)

\* the starter exercises, a template with a fixed target of which only the
\* reps were typed, and a template of automatic targets
logExercises == [i \in 1..3 |-> [gtgStarters(0)[i] EXCEPT !.id = i]]

logTemplates ==
  <<[id |-> 1,
     items |-> <<[exerciseId |-> 1, targetMode |-> "auto"],
                 [exerciseId |-> 2, targetMode |-> "fixed",
                  fixedTarget |-> [metricType |-> "weightedReps", reps |-> 5]]>>],
    [id |-> 2,
     items |-> <<[exerciseId |-> 1, targetMode |-> "auto"],
                 [exerciseId |-> 3, targetMode |-> "auto"]>>]>>

InitLogs ==
  /\ exercise = PushUps
  /\ settings = [progressionDefaults |-> defaultProgression]
  /\ logs = <<>>
  /\ now = Now0
  /\ pc = "loadStore"
  /\ target = NoTarget
  /\ again = NoTarget
  /\ FnIdle
  /\ exercises = logExercises
  /\ templates = logTemplates
  /\ db = [EmptyDb EXCEPT !.exercises = Elements(logExercises),
                          !.templates = Elements(logTemplates)]
  /\ quickCheckLogs = <<>>
  /\ detailLogs = <<>>
  /\ overlay = {}
  /\ download = NoFile
  /\ upload = NoFile
  /\ dialog = ""
  /\ uuids = 0
  /\ handlers = [p \in Handlers |-> idle]
  /\ jobs = <<>>
  /\ transactions = <<>>

\* getSelectionForLogging: the selected exercise, or the items of the selected
\* template
LogSelections ==
  {<<[exerciseId |-> exercises[i].id]>> : i \in {1}}
    \cup {templates[i].items : i \in 1..Len(templates)}

logsRest ==
  <<exercise, settings, target, again, fnVars, templates, download, upload, now,
    gtgVars>>

\* the Quick Log button; no modal is open
LogsQuickLog(selection) ==
  /\ overlay = {}
  /\ uuids + Len(selection) <= MaxEvents
  /\ LET st == gtgQuickLog(selection,
                           [exercises |-> exercises, logs |-> logs, db |-> db,
                            uuids |-> uuids, made |-> <<>>, errors |-> <<>>],
                           now)
     IN  /\ logs' = st.logs
         /\ db' = st.db
         /\ uuids' = st.uuids
         /\ IF st.errors # <<>>
            THEN /\ dialog' = st.errors[1]
                 /\ UNCHANGED <<quickCheckLogs, overlay>>
            ELSE /\ dialog' = LoggedToast
                 /\ quickCheckLogs' = st.made
                 /\ overlay' = {"quickCheck"}
  /\ pc' = "quickLog"
  /\ UNCHANGED <<exercises, detailLogs, logsRest>>

\* a slider of the quick check is moved: the log is the entry of state.logs
LogsQuickInput(index, feeling) ==
  /\ overlay = {"quickCheck"}
  /\ index \in 1..Len(quickCheckLogs)
  /\ logs' = [i \in 1..Len(logs) |->
                IF logs[i].id = quickCheckLogs[index] THEN feeling @@ logs[i]
                ELSE logs[i]]
  /\ logs' # logs
  /\ pc' = "quickInput"
  /\ UNCHANGED <<exercises, db, uuids, dialog, quickCheckLogs, overlay, detailLogs,
                 logsRest>>

\* the Save button of the quick check
LogsQuickSave ==
  /\ overlay = {"quickCheck"}
  /\ LET st == adjustedEach(quickCheckLogs,
                            [exercises |-> exercises, logs |-> logs,
                             db |-> quickSave(quickCheckLogs, logs, db)],
                            now)
     IN  /\ exercises' = st.exercises
         /\ db' = st.db
  /\ quickCheckLogs' = <<>>
  /\ overlay' = {}
  /\ dialog' = QuickSavedToast
  /\ pc' = "quickSave"
  /\ UNCHANGED <<logs, uuids, detailLogs, logsRest>>

\* the Detailed Log button; no modal is open
LogsOpenDetail(selection) ==
  /\ overlay = {}
  /\ uuids + Len(selection) <= MaxEvents
  /\ detailLogs' = gtgDetailLogs(selection, exercises, now, uuids)
  /\ uuids' = uuids + Len(detailLogs')
  /\ overlay' = {"detail"}
  /\ dialog' = ""
  /\ pc' = "openDetailLog"
  /\ UNCHANGED <<exercises, logs, db, quickCheckLogs, logsRest>>

\* an input of the detailed log is changed
LogsDetailInput(index, metric, value) ==
  /\ overlay = {"detail"}
  /\ index \in 1..Len(detailLogs)
  /\ metric = "reps" => detailLogs[index].exercise.type # "isometric"
  /\ detailLogs' =
       [detailLogs EXCEPT ![index].log =
          [f \in DOMAIN @ \cup {metric} |-> IF f = metric THEN value ELSE @[f]]]
  /\ detailLogs' # detailLogs
  /\ pc' = "detailInput"
  /\ UNCHANGED <<exercises, logs, db, uuids, dialog, quickCheckLogs, overlay,
                 logsRest>>

\* the Save button of the detailed log: every entry is validated before the
\* first one is saved
LogsDetailSave ==
  /\ overlay = {"detail"}
  /\ IF firstErrors(detailLogs) # <<>>
     THEN /\ dialog' = firstErrors(detailLogs)[1]
          /\ UNCHANGED <<exercises, logs, db, detailLogs, overlay>>
     ELSE /\ LET st == gtgSaveDetail(detailLogs,
                                     [exercises |-> exercises, logs |-> logs,
                                      db |-> db],
                                     now)
             IN  /\ exercises' = st.exercises
                 /\ logs' = st.logs
                 /\ db' = st.db
          /\ dialog' = DetailSavedToast
          /\ detailLogs' = <<>>
          /\ overlay' = {}
  /\ pc' = "detailSave"
  /\ UNCHANGED <<uuids, quickCheckLogs, logsRest>>

\* Skip, Cancel, the close button, a click on the backdrop: the modal is
\* closed
CloseModal ==
  /\ overlay # {}
  /\ overlay' = {}
  /\ quickCheckLogs' = <<>>
  /\ detailLogs' = <<>>
  /\ dialog' = ""
  /\ pc' = "closeModal"
  /\ UNCHANGED <<exercises, logs, db, uuids, logsRest>>

\* the Undo button
LogsUndo ==
  /\ overlay = {}
  /\ logs # <<>>
  /\ db' = dbDelete(db, "logs", logs[1].id)
  /\ logs' = Tail(logs)
  /\ dialog' = UndoToast
  /\ pc' = "undoLog"
  /\ UNCHANGED <<exercises, uuids, quickCheckLogs, detailLogs, overlay, logsRest>>

\* the Delete button of a log of the history
LogsDelete(id) ==
  /\ overlay = {}
  /\ db' = dbDelete(db, "logs", id)
  /\ LET Other(log) == log.id # id
     IN  logs' = SelectSeq(logs, Other)
  /\ dialog' = ""
  /\ pc' = "deleteLog"
  /\ UNCHANGED <<exercises, uuids, quickCheckLogs, detailLogs, overlay, logsRest>>

NextLogs ==
  \/ \E selection \in LogSelections : LogsQuickLog(selection)
  \/ LogsQuickInput(1, [rir |-> 2, pain0to10 |-> 0])
  \/ LogsQuickSave
  \/ \E selection \in LogSelections : LogsOpenDetail(selection)
  \/ \E index \in 1..2 : LogsDetailInput(index, "reps", 0)
  \/ LogsDetailSave
  \/ CloseModal
  \/ LogsUndo
  \/ \E i \in 1..Len(logs) : LogsDelete(logs[i].id)
  \/ overlay = {} /\ pc # "loadStore" /\ GtgLoadStore
  \/ Pass

SpecLogs == InitLogs /\ [][NextLogs]_vars

---------------------------------------------------------------------------
(* Vocabulary of the properties, stated on the history itself *)

Called == pc = "called"

\* the thresholds in force: the exercise's own profile, else the global defaults
TheProfile ==
  IF "progressionProfile" \in DOMAIN exercise
  THEN exercise.progressionProfile
  ELSE settings.progressionDefaults

Idx == 1..Len(logs)

\* log i comes before log j when the history is read newest first; entries of
\* equal timestamp keep the order of the array
Before(i, j) ==
  \/ logs[i].timestamp > logs[j].timestamp
  \/ logs[i].timestamp = logs[j].timestamp /\ i < j

CompleteIdx == {i \in Idx : logs[i].status = "complete"}

\* the complete logs of the last 14 days
WorkingIdx == {i \in CompleteIdx : now - logs[i].timestamp <= 14 * DAY_MS}

PainIdx == {i \in Idx : "pain0to10" \in DOMAIN logs[i]}

\* the freezeDaysIfPain most recent logs that carry a pain value
PainWindow ==
  {i \in PainIdx :
     Cardinality({j \in PainIdx : Before(j, i)}) < TheProfile.freezeDaysIfPain}

Newest(S) == CHOOSE i \in S : \A j \in S \ {i} : Before(i, j)

\* round half up of x * pct / 100, as the n with n <= x * pct / 100 + 1/2 < n + 1
Rounded(x, pct) ==
  CHOOSE n \in 0..(x * pct + 1) :
    100 * n <= x * pct + 50 /\ x * pct + 50 < 100 * n + 100

Larger(a, b) == IF a < b THEN b ELSE a
Smaller(a, b) == IF a < b THEN a ELSE b

\* the volume of one log
Volume(i) ==
  IF exercise.type = "reps" THEN logs[i].reps
  ELSE IF exercise.type = "weighted" THEN logs[i].reps * logs[i].loadKg
       ELSE logs[i].durationSec

RECURSIVE VolumeOf(_)
VolumeOf(S) ==
  IF S = {} THEN 0
  ELSE LET i == CHOOSE i \in S : TRUE IN Volume(i) + VolumeOf(S \ {i})

ThisWeekVolume == VolumeOf({i \in Idx : logs[i].timestamp >= now - 7 * DAY_MS})

PrevWeekVolume ==
  VolumeOf({i \in Idx : /\ logs[i].timestamp >= now - 14 * DAY_MS
                        /\ logs[i].timestamp < now - 7 * DAY_MS})

\* the weekly volume grew by more than maxWeeklyVolumeIncreasePct percent
CapFires ==
  /\ PrevWeekVolume > 0
  /\ (ThisWeekVolume - PrevWeekVolume) * 100
       > TheProfile.maxWeeklyVolumeIncreasePct * PrevWeekVolume

\* the working set: the 30 newest of them
Working30 ==
  LET W == WorkingIdx
  IN  IF Cardinality(W) <= 30 THEN W
      ELSE {i \in W : Cardinality({j \in W : Before(j, i)}) < 30}

HasHistory == WorkingIdx # {}

\* the most recent log of the working set
Last == logs[Newest(WorkingIdx)]

LastReps == IF HasHistory THEN Last.reps ELSE exercise.repRange.min
LastLoad == IF HasHistory THEN Last.loadKg ELSE 4 * exercise.loadIncrementKg
LastDuration == IF HasHistory THEN Last.durationSec ELSE exercise.durationRangeSec.min

\* the logs whose rir value counts
RirIdx == {i \in Working30 : "rir" \in DOMAIN logs[i]}

\* the k-th smallest rir value of the logs R, k in 1..Cardinality(R)
RirRank(R, k) ==
  CHOOSE v \in {logs[i].rir : i \in R} :
    /\ Cardinality({i \in R : logs[i].rir < v}) < k
    /\ k <= Cardinality({i \in R : logs[i].rir <= v})

\* twice the median of the rir values of the logs R
Median2(R) ==
  LET n == Cardinality(R)
  IN  IF n % 2 = 1 THEN 2 * RirRank(R, (n + 1) \div 2)
      ELSE RirRank(R, n \div 2) + RirRank(R, n \div 2 + 1)

RirDefined == RirIdx # {}
RirEasy == LET R == RirIdx IN R # {} /\ Median2(R) > 2 * TheProfile.targetRirMax
RirHigh == LET R == RirIdx IN R # {} /\ Median2(R) < 2 * TheProfile.targetRirMin
RirInBand == RirDefined /\ ~RirEasy /\ ~RirHigh

Bounded(v, lo, hi) == Smaller(Larger(v, lo), hi)

EffortNotes == {EasyReps, HighReps, TopReps, EasyTime, HighTime}

Notes == {target.explanation[i] : i \in 1..Len(target.explanation)}

---------------------------------------------------------------------------
(* C1 *)

\* the most recent complete log carries pain0to10 >= painReduce
NewestCompleteHurts ==
  /\ CompleteIdx # {}
  /\ Newest(CompleteIdx) \in PainIdx
  /\ logs[Newest(CompleteIdx)].pain0to10 >= TheProfile.painReduce

DeloadedReps(lastReps) ==
  Larger(exercise.minRepsFloor, Rounded(lastReps, TheProfile.deloadVolumeFactor))

\* C1 as claimed: for a rep-based exercise, whenever the most recent complete
\* log has pain0to10 >= painReduce, the call returns deload = true and
\* reps = max(minRepsFloor, round(lastReps * deloadVolumeFactor)), lastReps
\* being the reps of that log.
C1_AsClaimed ==
  (Called /\ exercise.type = "reps" /\ NewestCompleteHurts)
    => /\ target.deload
       /\ target.reps = DeloadedReps(logs[Newest(CompleteIdx)].reps)

\* C1, amended: for a rep-based exercise, whenever the most recent complete log
\* is at most 14 days old, is one of the freezeDaysIfPain most recent logs that
\* carry a pain value and has pain0to10 >= painReduce, the call returns
\* deload = true and reps = max(minRepsFloor, round(lastReps *
\* deloadVolumeFactor)), whatever the rir values and the weekly volumes are.
C1_DeloadOverride ==
  (/\ Called
   /\ exercise.type = "reps"
   /\ NewestCompleteHurts
   /\ Newest(CompleteIdx) \in WorkingIdx
   /\ Newest(CompleteIdx) \in PainWindow)
    => /\ target.deload
       /\ target.reps = DeloadedReps(logs[Newest(CompleteIdx)].reps)

\* a deload that overrides both an easy effort and a volume cap that fires
C1_Witness ==
  /\ Called
  /\ exercise.type = "reps"
  /\ NewestCompleteHurts
  /\ Newest(CompleteIdx) \in WorkingIdx
  /\ Newest(CompleteIdx) \in PainWindow
  /\ RirEasy
  /\ CapFires
  /\ target.deload
  /\ target.reps < logs[Newest(CompleteIdx)].reps

---------------------------------------------------------------------------
(* C2 *)

PainHighInWindow ==
  \E i \in PainWindow : logs[i].pain0to10 >= TheProfile.painReduce

PainStreakInWindow ==
  /\ Cardinality(PainWindow) = TheProfile.freezeDaysIfPain
  /\ \A i \in PainWindow : logs[i].pain0to10 >= TheProfile.painWarn

\* C2: deload is returned exactly when, among the up to freezeDaysIfPain most
\* recent logs that carry a pain value (of any status and age), one has pain >=
\* painReduce, or there are exactly freezeDaysIfPain of them and each has pain
\* >= painWarn; frozen equals deload; the guardrail note is in the explanation
\* if and only if deload is true.
C2_Guardrail ==
  Called =>
    /\ target.deload <=> (PainHighInWindow \/ PainStreakInWindow)
    /\ target.frozen = target.deload
    /\ (GuardrailNote \in Notes) <=> target.deload

\* a deload by a streak of warnings alone, one of them on a skipped set
C2_Witness ==
  /\ Called
  /\ target.deload
  /\ ~PainHighInWindow
  /\ PainStreakInWindow
  /\ \E i \in PainWindow : logs[i].status = "skipped"

---------------------------------------------------------------------------
(* C3 *)

TargetIsLast ==
  IF exercise.type = "reps" THEN target.reps = LastReps
  ELSE IF exercise.type = "weighted"
       THEN target.reps = LastReps /\ target.loadKg = LastLoad
       ELSE target.durationSec = LastDuration

\* C3: for the three kinds, when deload is false, volumePrevWeek > 0 and the
\* increase in percent exceeds maxWeeklyVolumeIncreasePct, the call returns
\* exactly lastTarget and the explanation holds the volume-cap note; when
\* volumePrevWeek = 0 the cap does not fire.
C3_VolumeCap ==
  Called =>
    /\ (~target.deload /\ CapFires) => (TargetIsLast /\ CapNote \in Notes)
    /\ PrevWeekVolume = 0 => CapNote \notin Notes

\* the cap discards an increase that the effort asked for
C3_Witness ==
  /\ Called
  /\ ~target.deload
  /\ CapFires
  /\ RirEasy
  /\ TargetIsLast
  /\ CapNote \in Notes

---------------------------------------------------------------------------
(* C4 *)

WeightedPlain == Called /\ exercise.type = "weighted" /\ ~target.deload /\ ~CapFires

\* C4: weighted exercise, no deload, cap not firing, medianRir > targetRirMax:
\* at the top of the rep range the target is repRange.min with the load raised
\* by loadIncrementKg; below the top it is lastReps + repIncrement with the
\* load unchanged.
C4_TopOut ==
  (WeightedPlain /\ RirEasy) =>
    /\ LastReps = exercise.repRange.max =>
         /\ target.reps = exercise.repRange.min
         /\ target.loadKg = LastLoad + exercise.loadIncrementKg
    /\ LastReps < exercise.repRange.max =>
         /\ target.reps = LastReps + exercise.repIncrement
         /\ target.loadKg = LastLoad

C4_Witness ==
  /\ WeightedPlain
  /\ RirEasy
  /\ LastReps = exercise.repRange.max
  /\ target.reps = exercise.repRange.min
  /\ target.loadKg = LastLoad + exercise.loadIncrementKg

---------------------------------------------------------------------------
(* C5 *)

ReducedReps ==
  /\ target.reps = Larger(exercise.repRange.min, LastReps - exercise.repIncrement)
  /\ target.loadKg = LastLoad

\* C5 as claimed: weighted exercise, not frozen, no deload, cap not firing:
\* whenever medianRir is defined and below targetRirMax, the target is
\* max(repRange.min, lastReps - repIncrement) with the load unchanged.
C5_AsClaimed ==
  (WeightedPlain /\ RirDefined /\ Median2(RirIdx) < 2 * TheProfile.targetRirMax)
    => ReducedReps

\* C5, amended: the reduction happens whenever medianRir is defined and below
\* targetRirMin.
C5_Reduce == (WeightedPlain /\ RirHigh) => ReducedReps

\* a reduction that leaves the floor alone, and one that stops at it
C5_Witness ==
  /\ WeightedPlain
  /\ RirHigh
  /\ LastReps = exercise.repRange.max
  /\ target.reps = LastReps - exercise.repIncrement

---------------------------------------------------------------------------
(* C6 *)

RepsPlain == Called /\ exercise.type = "reps" /\ ~target.deload /\ ~CapFires

BoundedReps(v) == Bounded(v, exercise.minRepsFloor, exercise.repRange.max)

\* C6: rep-based exercise, not frozen, no deload, cap not firing, medianRir
\* defined: the next reps are lastReps + repIncrement above targetRirMax,
\* lastReps - repIncrement below targetRirMin and lastReps inside the band,
\* each bounded to [minRepsFloor, repRange.max].
C6_RepsEffort ==
  (RepsPlain /\ RirDefined) =>
    /\ RirEasy => target.reps = BoundedReps(LastReps + exercise.repIncrement)
    /\ RirHigh => target.reps = BoundedReps(LastReps - exercise.repIncrement)
    /\ RirInBand => target.reps = BoundedReps(LastReps)

\* a reduction that the floor stops
C6_Witness ==
  /\ RepsPlain
  /\ RirHigh
  /\ LastReps - exercise.repIncrement < exercise.minRepsFloor
  /\ target.reps = exercise.minRepsFloor

---------------------------------------------------------------------------
(* C7 *)

IsoPlain ==
  /\ Called
  /\ exercise.type = "isometric"
  /\ PainIdx = {}
  /\ ~target.deload
  /\ ~CapFires

\* C7 as claimed: isometric exercise, no pain data, no deload, no cap hit: above
\* targetRirMax the next duration is min(durationRangeSec.max, lastDuration +
\* timeIncrementSec), below targetRirMin it is max(durationRangeSec.min,
\* lastDuration - timeIncrementSec).
C7_AsClaimed ==
  IsoPlain =>
    /\ RirEasy =>
         target.durationSec =
           Smaller(exercise.durationRangeSec.max, LastDuration + exercise.timeIncrementSec)
    /\ RirHigh =>
         target.durationSec =
           Larger(exercise.durationRangeSec.min, LastDuration - exercise.timeIncrementSec)

BoundedDuration(v) ==
  Bounded(v, exercise.durationRangeSec.min, exercise.durationRangeSec.max)

\* C7, amended: the next duration is lastDuration + timeIncrementSec above
\* targetRirMax and lastDuration - timeIncrementSec below targetRirMin, in both
\* cases bounded to durationRangeSec on both sides.
C7_IsoEffort ==
  IsoPlain =>
    /\ RirEasy => target.durationSec = BoundedDuration(LastDuration + exercise.timeIncrementSec)
    /\ RirHigh => target.durationSec = BoundedDuration(LastDuration - exercise.timeIncrementSec)

\* the scenario of the specification: one set of 30 s with rir 6 gives 35 s
C7_Witness ==
  /\ IsoPlain
  /\ Len(logs) = 1
  /\ logs[1].durationSec = 30
  /\ "rir" \in DOMAIN logs[1]
  /\ logs[1].rir = 6
  /\ TheProfile.targetRirMax = 5
  /\ target.durationSec = 35

---------------------------------------------------------------------------
(* C8 *)

\* the last target, put back into the exercise's range
TargetIsBoundedLast ==
  IF exercise.type = "reps" THEN target.reps = BoundedReps(LastReps)
  ELSE IF exercise.type = "weighted"
       THEN target.reps = LastReps /\ target.loadKg = LastLoad
       ELSE target.durationSec = BoundedDuration(LastDuration)

\* what the effort step makes of the last target and of the median rir
TargetFollowsEffort ==
  LET easy == RirEasy
      high == RirHigh
  IN  IF exercise.type = "reps"
      THEN target.reps =
             BoundedReps(IF easy THEN LastReps + exercise.repIncrement
                         ELSE IF high THEN LastReps - exercise.repIncrement
                         ELSE LastReps)
      ELSE IF exercise.type = "weighted"
           THEN IF easy /\ LastReps < exercise.repRange.max
                THEN /\ target.reps = LastReps + exercise.repIncrement
                     /\ target.loadKg = LastLoad
                ELSE IF easy
                     THEN /\ target.reps = exercise.repRange.min
                          /\ target.loadKg = LastLoad + exercise.loadIncrementKg
                     ELSE IF high THEN ReducedReps
                          ELSE target.reps = LastReps /\ target.loadKg = LastLoad
           ELSE target.durationSec =
                  BoundedDuration(IF easy THEN LastDuration + exercise.timeIncrementSec
                                  ELSE IF high THEN LastDuration - exercise.timeIncrementSec
                                  ELSE LastDuration)

\* C8: the target is computed from lastTarget, the metric of the newest
\* complete log of the last 14 days, or the configured minimum when there is
\* none, and from the median of the rir values of the 30 newest complete logs
\* of the last 14 days; skipped logs, older logs and logs beyond the 30th
\* supply neither.
C8_WorkingSet ==
  (Called /\ ~target.deload) =>
    IF CapFires THEN TargetIsLast ELSE TargetFollowsEffort

\* more than 30 complete sets in 14 days, and the rir of the sets beyond the
\* 30th would have made the effort easy
C8_Witness ==
  /\ Called
  /\ ~target.deload
  /\ ~CapFires
  /\ Cardinality(WorkingIdx) > 30
  /\ RirInBand
  /\ \A i \in WorkingIdx \ Working30 :
        "rir" \in DOMAIN logs[i] /\ logs[i].rir > TheProfile.targetRirMax
  /\ Cardinality({i \in WorkingIdx : "rir" \in DOMAIN logs[i]
                                      /\ logs[i].rir > TheProfile.targetRirMax})
       > Cardinality({i \in WorkingIdx : "rir" \in DOMAIN logs[i]
                                        /\ logs[i].rir <= TheProfile.targetRirMax})
  /\ TargetIsBoundedLast

---------------------------------------------------------------------------
(* C9 *)

NoEffortNote == Notes \cap EffortNotes = {}

\* C9 as claimed: when no log of the working set carries an rir value, no
\* effort note is appended and, absent deload, the target is lastTarget.
C9_AsClaimed ==
  (Called /\ ~RirDefined) =>
    /\ NoEffortNote
    /\ ~target.deload => TargetIsLast

\* C9, amended: when no log of the working set carries an rir value, no effort
\* note is appended and, absent deload, the target is lastTarget itself when
\* the volume cap fires and otherwise lastTarget bounded to [minRepsFloor,
\* repRange.max] (rep-based) or durationRangeSec (isometric); for a weighted
\* exercise it is lastReps and lastLoad.
C9_NoRir ==
  (Called /\ ~RirDefined) =>
    /\ NoEffortNote
    /\ ~target.deload => IF CapFires THEN TargetIsLast ELSE TargetIsBoundedLast

\* a history with complete sets of the last 14 days, none of which has an rir
C9_Witness ==
  /\ Called
  /\ HasHistory
  /\ ~RirDefined
  /\ \E i \in Idx : "rir" \in DOMAIN logs[i]
  /\ ~target.deload
  /\ ~CapFires
  /\ NoEffortNote
  /\ TargetIsLast

---------------------------------------------------------------------------
(* C10 *)

---------------------------------------------------------------------------
(* C11 *)

\* the logs whose timestamp t satisfies from <= t < to
StampedIdx(from, to) ==
  {i \in Idx : from <= logs[i].timestamp /\ logs[i].timestamp < to}

\* C11 as claimed: volumeThisWeek is the sum of volumeFn over exactly the logs
\* with now - 7d <= timestamp < now and volumePrevWeek the sum over exactly the
\* logs with now - 14d <= timestamp < now - 7d, whatever their status; a log
\* timestamped at or after now contributes to neither.
C11_AsClaimed ==
  pc = "weekly" =>
    /\ result.volumeThisWeek = VolumeOf(StampedIdx(now - 7 * DAY_MS, now))
    /\ result.volumePrevWeek = VolumeOf(StampedIdx(now - 14 * DAY_MS, now - 7 * DAY_MS))

\* C11, amended: volumeThisWeek is the sum of volumeFn over exactly the logs
\* with timestamp >= now - 7d, those timestamped at or after now included, and
\* volumePrevWeek the sum over exactly the logs with now - 14d <= timestamp <
\* now - 7d; older logs contribute to neither and logs are counted whatever
\* their status.
C11_WeeklyVolume ==
  pc = "weekly" =>
    /\ result.volumeThisWeek = VolumeOf({i \in Idx : logs[i].timestamp >= now - 7 * DAY_MS})
    /\ result.volumePrevWeek = VolumeOf(StampedIdx(now - 14 * DAY_MS, now - 7 * DAY_MS))

\* a skipped set on the first instant of the current week and a set on the
\* last instant of the previous week
C11_Witness ==
  /\ pc = "weekly"
  /\ Len(logs) = 2
  /\ logs[1].timestamp = now - 7 * DAY_MS
  /\ logs[1].status = "skipped"
  /\ logs[2].timestamp = now - 7 * DAY_MS - 1
  /\ result.volumeThisWeek = Volume(1)
  /\ result.volumePrevWeek = Volume(2)

---------------------------------------------------------------------------
(* C12 *)

\* the metric f of the validated log is at least lo (strictly more, if strict)
EntryAbove(f, lo, strict) ==
  /\ f \in DOMAIN entry
  /\ IF strict THEN entry[f] > lo ELSE entry[f] >= lo

\* the fields of the validated log that the claim requires and that fail
FailingFields ==
  IF entry.status # "complete" THEN {}
  ELSE IF exercise.type = "reps"
       THEN {f \in {"reps"} : ~EntryAbove(f, FormUnit, FALSE)}
       ELSE IF exercise.type = "weighted"
            THEN {f \in {"reps"} : ~EntryAbove(f, FormUnit, FALSE)}
                   \cup {f \in {"loadKg"} : ~EntryAbove(f, 0, TRUE)}
            ELSE {f \in {"durationSec"} : ~EntryAbove(f, 0, TRUE)}

\* what the claim says of a verdict v on the validated log
AsClaimedOf(v) ==
  /\ v.valid <=> FailingFields = {}
  /\ ~v.valid => /\ "errors" \in DOMAIN v
                 /\ Len(v.errors) >= 1
                 /\ exercise.type = "weighted" => Len(v.errors) = Cardinality(FailingFields)

\* C12: validateLog returns valid for every log that is not complete, whatever
\* its metrics; for a complete log it returns valid if and only if reps >= 1
\* (rep-based), reps >= 1 and loadKg > 0 (weighted, one error per failing
\* field) or durationSec > 0 (isometric); an invalid result carries at least
\* one error string.
C12_AsClaimed == pc = "validated" => AsClaimedOf(result)

\* C12 on the GTG variant, whose validateLog compares reps with 1
C12_Gtg == pc = "validatedGtg" => AsClaimedOf(result)

\* a complete weighted log of half a repetition and no load: two errors
C12_GtgWitness ==
  /\ pc = "validatedGtg"
  /\ exercise.type = "weighted"
  /\ entry.status = "complete"
  /\ "reps" \in DOMAIN entry
  /\ 0 < entry.reps
  /\ entry.reps < FormUnit
  /\ ~result.valid
  /\ Len(result.errors) = 2

---------------------------------------------------------------------------
(* C18 *)

\* the logs within windowDays of now
InWindowIdx == {i \in Idx : now - logs[i].timestamp <= windowDays * DAY_MS}

\* the calendar days, in UTC, on which a log of S was made
DaysOf(S) ==
  {d \in 0..(Now0 + 1) :
     \E i \in S : d * DAY_MS <= logs[i].timestamp /\ logs[i].timestamp < (d + 1) * DAY_MS}

\* round half up of a number of quarters, as the n with n <= q / 4 + 1/2 < n + 1
RoundedQuarters(q) == CHOOSE n \in 0..(q + 1) : 4 * n <= q + 2 /\ q + 2 < 4 * n + 4

\* the pain summary of the logs S
PainAtLeast(S, p) ==
  Cardinality({i \in S : "pain0to10" \in DOMAIN logs[i] /\ logs[i].pain0to10 >= p})

IsPainSummaryOf(r, S) ==
  /\ r.deloadCount = PainAtLeast(S, 5)
  /\ r.freezeDays = PainAtLeast(S, 3)
  /\ r.activeDaysPerWeek = RoundedQuarters(7 * Cardinality(DaysOf(S)))

WindowedFields == {"prReps", "prLoadKg", "bestEstimated1RM", "avgRir", "medianRir", "avgPain"}

SummaryFields ==
  {"volumeThisWeek", "volumePrevWeek", "deloadCount", "freezeDays", "activeDaysPerWeek"}

EmptyWindow == pc = "stats" /\ exercise.type = "weighted" /\ InWindowIdx = {}

\* C18 as claimed: computeStats on a weighted exercise, called with a log set
\* none of whose logs lies within windowDays of now, returns prReps, prLoadKg,
\* bestEstimated1RM, avgRir, medianRir and avgPain absent, and volumeThisWeek,
\* volumePrevWeek, deloadCount, freezeDays and activeDaysPerWeek present and
\* equal to 0.
C18_AsClaimed ==
  EmptyWindow =>
    /\ DOMAIN result \cap WindowedFields = {}
    /\ SummaryFields \subseteq DOMAIN result
    /\ \A f \in SummaryFields : result[f] = 0

\* C18, amended: with a window of 7, 30 or 90 days and no log within it, the
\* six windowed fields are absent and the five others present; volumeThisWeek
\* is 0, while volumePrevWeek, deloadCount, freezeDays and activeDaysPerWeek
\* are still computed from the logs older than the window, and are 0 when the
\* log set is empty.
C18_Omission ==
  EmptyWindow =>
    /\ DOMAIN result \cap WindowedFields = {}
    /\ SummaryFields \subseteq DOMAIN result
    /\ result.volumeThisWeek = 0
    /\ result.volumePrevWeek = PrevWeekVolume
    /\ IsPainSummaryOf(result, Idx)
    /\ logs = <<>> => \A f \in SummaryFields : result[f] = 0

\* a window of 7 days and a painful set of the week before
C18_Witness ==
  /\ EmptyWindow
  /\ windowDays = 7
  /\ logs # <<>>
  /\ result.volumePrevWeek > 0
  /\ result.deloadCount > 0
  /\ "prReps" \notin DOMAIN result

---------------------------------------------------------------------------
(* C19 *)

RECURSIVE FieldSum(_, _)
FieldSum(S, f) ==
  IF S = {} THEN 0
  ELSE LET i == CHOOSE i \in S : TRUE IN logs[i][f] + FieldSum(S \ {i}, f)

With(S, f) == {i \in S : f \in DOMAIN logs[i]}

\* the field of the statistics r that is the maximum of f over the logs S
IsMaxOf(r, name, S, f) ==
  IF With(S, f) = {} THEN name \notin DOMAIN r
  ELSE /\ name \in DOMAIN r
       /\ \E i \in With(S, f) : r[name] = logs[i][f]
       /\ \A i \in With(S, f) : r[name] >= logs[i][f]

\* the field of the statistics r that is the average of f over the logs S
IsAverageOf(r, name, S, f) ==
  IF With(S, f) = {} THEN name \notin DOMAIN r
  ELSE /\ name \in DOMAIN r
       /\ r[name].num = FieldSum(With(S, f), f)
       /\ r[name].den = Cardinality(With(S, f))

\* the windowed fields of the statistics r are those of the logs S
IsWindowedOf(r, S) ==
  /\ IsAverageOf(r, "avgRir", S, "rir")
  /\ IsAverageOf(r, "avgPain", S, "pain0to10")
  /\ IF With(S, "rir") = {} THEN "medianRir" \notin DOMAIN r
     ELSE "medianRir" \in DOMAIN r /\ r.medianRir = Median2(With(S, "rir"))
  /\ IF exercise.type = "isometric"
     THEN IsMaxOf(r, "prDurationSec", S, "durationSec")
     ELSE IsMaxOf(r, "prReps", S, "reps")
  /\ exercise.type = "weighted" => IsMaxOf(r, "prLoadKg", S, "loadKg")

\* the volumes and the pain summary of the statistics r are those of the logs S
IsSummaryOf(r, S) ==
  /\ r.volumeThisWeek = VolumeOf({i \in S : logs[i].timestamp >= now - 7 * DAY_MS})
  /\ r.volumePrevWeek =
       VolumeOf(S \cap StampedIdx(now - 14 * DAY_MS, now - 7 * DAY_MS))
  /\ IsPainSummaryOf(r, S)

\* the logs that the analytics view keeps: complete if complete-only is
\* checked, and within windowDays of now
ShownIdx ==
  {i \in InWindowIdx : completeOnly => logs[i].status = "complete"}

\* C19 as claimed: in the statistics shown for an exercise the PR, average and
\* median fields are computed from the logs within windowDays of now, whereas
\* volumeThisWeek, volumePrevWeek and the pain summary are computed over the
\* full unfiltered history of the exercise, whatever the selected window and
\* the complete-only filter are.
C19_AsClaimed ==
  pc = "analytics" => IsSummaryOf(result, Idx)

\* C19, amended: in the statistics shown for an exercise every field, the
\* volumes and the pain summary included, is computed from the logs that the
\* view keeps: those within windowDays of now that are complete when the
\* complete-only filter is checked; computeStats takes the volumes and the
\* pain summary from all the logs it is handed, and the view hands it the
\* filtered ones.
C19_Analytics ==
  pc = "analytics" =>
    /\ IsWindowedOf(result, ShownIdx)
    /\ IsSummaryOf(result, ShownIdx)

\* a window of 7 days hides the volume of the week before
C19_Witness ==
  /\ pc = "analytics"
  /\ windowDays = 7
  /\ PrevWeekVolume > 0
  /\ result.volumePrevWeek = 0
  /\ \E i \in Idx \ ShownIdx : logs[i].status = "skipped"
  /\ ShownIdx # {}

---------------------------------------------------------------------------
(* C20 *)

\* C20: summarizePainFlags returns deloadCount, the number of supplied logs
\* with pain0to10 >= 5, freezeDays, the number with pain0to10 >= 3 (a log
\* without a pain value counts in neither), and activeDaysPerWeek = round(d / 4
\* * 7), d being the number of distinct calendar days among the timestamps;
\* hence deloadCount <= freezeDays <= number of logs.
C20_PainSummary ==
  pc = "pain" =>
    /\ IsPainSummaryOf(result, Idx)
    /\ result.deloadCount <= result.freezeDays
    /\ result.freezeDays <= Len(logs)

\* two sets of the same day made at different times, one without a pain value
C20_Witness ==
  /\ pc = "pain"
  /\ \E i, j \in Idx :
       /\ logs[i].timestamp # logs[j].timestamp
       /\ DaysOf({i}) = DaysOf({j})
       /\ "pain0to10" \notin DOMAIN logs[i]
       /\ Has(logs[j], "pain0to10")
       /\ logs[j].pain0to10 >= 3
  /\ result.activeDaysPerWeek = 2
  /\ result.freezeDays = 1

---------------------------------------------------------------------------
(* C13: no log that fails validateLog is persisted *)

\* the exercise a log belongs to, if state.exercises still holds it
exerciseOf(log) == FindById(exercises, log.exerciseId)

PassesValidation(log) ==
  exerciseOf(log) # <<>> => validateLog(hydrateExercise(exerciseOf(log)[1]), log).valid

\* C13, as claimed: after any sequence of quick logs and detailed logs, template
\* items with fixed targets included, every complete log in state.logs and in
\* the logs store satisfies validateLog of its exercise.
C13_AsClaimed ==
  \A log \in Elements(logs) \cup db.logs :
     log.status = "complete" => PassesValidation(log)

---------------------------------------------------------------------------
(* C14: a saved log is not updated *)

SubjectiveFields == {"rir", "pain0to10"}

entriesOf(lgs, id) ==
  LET IsIt(log) == idOf(log) = id
  IN  SelectSeq(lgs, IsIt)

recordsOf(database, id) == {r \in database.logs : r.id = id}

\* the step leaves the entry and the record of the id as they are
Untouched(id) ==
  /\ entriesOf(logs', id) = entriesOf(logs, id)
  /\ recordsOf(db', id) = recordsOf(db, id)

\* the step deletes the entry and the record of the id
Deleted(id) ==
  /\ entriesOf(logs', id) = <<>>
  /\ recordsOf(db', id) = {}

\* two logs that differ at most in rir and pain0to10
SameButSubjective(a, b) ==
  /\ DOMAIN a \ SubjectiveFields = DOMAIN b \ SubjectiveFields
  /\ \A f \in DOMAIN a \ SubjectiveFields : a[f] = b[f]

\* the open quick check holds the log, and the step changes at most rir and
\* pain0to10 of its entry and of its record
QuickChecked(id) ==
  /\ "quick" \in overlay
  /\ \E i \in 1..Len(quickCheckLogs) : quickCheckLogs[i] = id
  /\ Len(entriesOf(logs', id)) = Len(entriesOf(logs, id))
  /\ \A k \in 1..Len(entriesOf(logs, id)) :
        SameButSubjective(entriesOf(logs', id)[k], entriesOf(logs, id)[k])
  /\ recordsOf(db', id) # {}
  /\ \A after \in recordsOf(db', id) :
        \E before \in recordsOf(db, id) : SameButSubjective(after, before)

---------------------------------------------------------------------------
(* C16: the backup read back *)

\* what the engine shows of every exercise of a state
engineView(exs, lgs, stg, window, t) ==
  [i \in 1..Len(exs) |->
     LET this == hydrateExercise(exs[i])
         Own(log) == log.exerciseId = this.id
         own == SelectSeq(lgs, Own)
     IN  [nextTarget |-> computeNextTarget(this, own,
                                           [now |-> t, profile |-> stg.progressionDefaults]),
          stats |-> computeStats(this, own, window, t)]]

\* the backup just written is the file read
RoundTrip == pc = "exportJson" /\ pc' = "importJson" /\ upload' = download

\* C16: exportJson followed by importJson of the backup it wrote leaves
\* state.exercises, state.logs (in the same order), state.templates and
\* state.settings as they were, and with them what computeNextTarget and
\* computeStats return.
C16_RoundTrip ==
  [][RoundTrip =>
       /\ exercises' = exercises
       /\ logs' = logs
       /\ templates' = templates
       /\ settings' = settings
       /\ engineView(exercises', logs', settings', windowDays', now')
            = engineView(exercises, logs, settings, windowDays, now)
       /\ dialog' = ImportCompleteToast]_vars

\* the backup of a state with a log and a template has been read back
C16_Witness ==
  /\ pc = "importJson"
  /\ upload = exportJson(exercises, logs, templates, settings)
  /\ logs # <<>>
  /\ templates # <<>>

---------------------------------------------------------------------------
(* C17: a failed import *)

\* the step is an importJson that ends with the alert
ImportFailed == pc' = "importJson" /\ dialog' = InvalidJsonFile

\* C17, as claimed: when importJson fails and shows the "Invalid JSON file."
\* alert, the state in memory and the store are as they were before the import.
C17_AsClaimed ==
  [][ImportFailed =>
       /\ exercises' = exercises
       /\ logs' = logs
       /\ templates' = templates
       /\ settings' = settings
       /\ db' = db]_vars

\* C17, for a text that is not JSON: the state in memory and the store are as
\* they were.
C17_Malformed ==
  [][(ImportFailed /\ SyntaxError(upload')) =>
       UNCHANGED <<exercises, logs, templates, settings, db>>]_vars

\* ---- C15 ----

\* the record of Push-ups in state.exercises and in the exercises store
inMemory == FindById(exercises, gtgPushUps.id)

inStore == {r \in db.exercises : r.id = gtgPushUps.id}

\* the records of the exercise handed to dbPut and not committed yet, oldest
\* first: those of the transactions, then the one whose dbPut has not reached
\* its transaction
RECURSIVE putsOf(_)
putsOf(txs) ==
  IF txs = <<>> THEN <<>>
  ELSE (IF Head(txs).store = "exercises" THEN <<Head(txs).value>> ELSE <<>>)
         \o putsOf(Tail(txs))

RECURSIVE callsOf(_)
callsOf(queue) ==
  IF queue = <<>> THEN <<>>
  ELSE (IF handlers[Head(queue)].pc = "dbPut" /\ handlers[Head(queue)].store = "exercises"
        THEN <<handlers[Head(queue)].value>> ELSE <<>>)
         \o callsOf(Tail(queue))

pendingPuts == putsOf(transactions) \o callsOf(jobs)

\* the record the exercises store holds once every pending put is committed
finallyStored ==
  IF pendingPuts # <<>> THEN {pendingPuts[Len(pendingPuts)]} ELSE inStore

\* every write to the exercise in state.exercises is the adjustment of the
\* record that is there at that moment, with the logs and the time of the call
SerialWrite ==
  exercises' # exercises =>
    exercises' = adjustExerciseIntensity(exercises, logs', gtgPushUps.id, now).exercises

\* C15: when Save handlers of logs of one exercise are interleaved at their
\* awaits, each adjustment is computed from the record the previous one left
\* in memory (the adjustments apply in a serial order), and the record the
\* exercises store ends with, once the pending puts are committed, is the
\* in-memory record
C15_NoLostUpdate ==
  /\ [](finallyStored = {inMemory[1]})
  /\ [][SerialWrite]_vars

\* two adjustments of the exercise have written different records to memory
\* and neither put is committed yet
C15_Witness ==
  /\ Len(pendingPuts) >= 2
  /\ pendingPuts[1] # pendingPuts[2]
  /\ handlers[1].pc # "idle"
  /\ handlers[2].pc # "idle"

\* ---- C25 ----

\* the target is inside the configured range of the exercise
TargetInRange ==
  IF exercise.type = "reps"
  THEN target.reps >= exercise.minRepsFloor /\ target.reps <= exercise.repRange.max
  ELSE IF exercise.type = "weighted"
  THEN target.reps >= exercise.repRange.min /\ target.reps <= exercise.repRange.max
  ELSE /\ target.durationSec >= exercise.durationRangeSec.min
       /\ target.durationSec <= exercise.durationRangeSec.max

\* C25: for every history, time and profile the target of computeNextTarget is
\* inside the configured range of the exercise (reps between minRepsFloor and
\* repRange.max, weighted reps between repRange.min and repRange.max, duration
\* between durationRangeSec.min and durationRangeSec.max), also when the volume
\* cap or the deload decides it
C25_AsClaimed == Called => TargetInRange

\* ---- C26 ----

NoPainRecorded == \A i \in 1..Len(logs) : ~Has(logs[i], "pain0to10")

\* C26: when no log of the exercise carries a pain0to10 value, the target has
\* deload = false and frozen = false, and the deload override is not applied,
\* whatever freezeDaysIfPain, painWarn and painReduce are
C26_AsClaimed ==
  (Called /\ NoPainRecorded) =>
    /\ ~target.deload
    /\ ~target.frozen
    /\ \A i \in 1..Len(target.explanation) : target.explanation[i] # DeloadNote

\* ---- C24 ----

\* log i is read before log j when the logs are sorted newest first
Newer(lgs, i, j) ==
  \/ lgs[i].timestamp > lgs[j].timestamp
  \/ lgs[i].timestamp = lgs[j].timestamp /\ i < j

CompleteOf(lgs, id) ==
  {i \in 1..Len(lgs) : lgs[i].exerciseId = id /\ lgs[i].status = "complete"}

\* the three most recent complete logs of the exercise, as indices
LastThree(lgs, id) ==
  {i \in CompleteOf(lgs, id) :
     Cardinality({j \in CompleteOf(lgs, id) : Newer(lgs, j, i)}) < 3}

PainOver(log, n) == Has(log, "pain0to10") /\ log.pain0to10 >= n

DeloadActive(record, t) == record.deloadUntil # null /\ t < record.deloadUntil

\* the call has handed a record of the exercise to dbPut
WroteExercise(hs) == \E p \in Handlers : hs[p].pc = "dbPut" /\ hs[p].store = "exercises"

AdjustsAsClaimed(old, new, lgs, t, wrote) ==
  LET three == LastThree(lgs, old.id)
      strain == \E i \in three : PainOver(lgs[i], 3) \/ (Has(lgs[i], "rir") /\ lgs[i].rir <= 2)
      easy == /\ Cardinality(three) = 3
              /\ \A i \in three : /\ Has(lgs[i], "rir") /\ lgs[i].rir >= 5
                                  /\ Has(lgs[i], "pain0to10") /\ lgs[i].pain0to10 <= 2
      same == new = old /\ ~wrote
  IN  (\A i \in three : ~PainOver(lgs[i], 5)) =>
        IF DeloadActive(old, t) THEN same
        ELSE IF strain
        THEN /\ new.baseline.intensityPct = Max2(INTENSITY_MIN, old.baseline.intensityPct - 5)
             /\ new.deloadUntil = old.deloadUntil
        ELSE IF easy
        THEN /\ new.baseline.intensityPct = Min2(INTENSITY_MAX, old.baseline.intensityPct + 2)
             /\ new.deloadUntil = old.deloadUntil
        ELSE same

TargetNow == gtgComputeNextTarget(normalizeExerciseRecord(exercises[1]), now)

\* the target of a deload: three tenths of the baseline, at least 1 repetition
\* or 5 seconds
DeloadTarget(record, tgt) ==
  /\ tgt.deload
  /\ IF record.type = "reps"
     THEN tgt.reps = Max2(1, (2 * record.baseline.maxCleanReps * 3 + 10) \div 20)
     ELSE tgt.durationSec = Max2(5, (2 * record.baseline.maxCleanHoldSec * 3 + 10) \div 20)

\* the call deloads: 0.30 and a week from now, in memory and handed to dbPut
\* unless the record is that already
DeloadsAsClaimed(old, new, lgs, t, hs) ==
  (\E i \in LastThree(lgs, old.id) : PainOver(lgs[i], 5)) =>
    /\ new.baseline.intensityPct = INTENSITY_MIN
    /\ new.deloadUntil = t + DELOAD_DAYS * DAY_MS
    /\ new # old =>
         \E p \in Handlers : hs[p].pc = "dbPut" /\ hs[p].store = "exercises" /\ hs[p].value = new

\* C22: every adjustExerciseIntensity that finds pain0to10 >= 5 in one of the
\* three most recent complete logs of the exercise sets intensityPct to 0.30 and
\* deloadUntil to now + 7 days, under an active deload as well, and saves the
\* record; and until deloadUntil the target has deload = true and reps =
\* max(1, round(maxCleanReps * 0.30)), isometric durationSec =
\* max(5, round(maxCleanHoldSec * 0.30))
C22_Deload ==
  /\ [](DeloadActive(exercises[1], now) => DeloadTarget(exercises[1], TargetNow))
  /\ [][pc' = "adjustExerciseIntensity" =>
          DeloadsAsClaimed(exercises[1], exercises'[1], logs', now, handlers')]_vars

\* the deload of a log with pain was still active when the next log came: it is
\* set anew, to a week from now
C22_Witness ==
  /\ pc = "adjustExerciseIntensity"
  /\ now = Now0 + 4 * DAY_MS
  /\ \E i \in 1..Len(logs) : PainOver(logs[i], 5) /\ logs[i].timestamp = Now0
  /\ exercises[1].deloadUntil = now + DELOAD_DAYS * DAY_MS
  /\ TargetNow.deload

\* ---- C21 ----

\* the deload of the exercise has run out
DeloadOver(record, t) == record.deloadUntil # null /\ ~DeloadActive(record, t)

\* a deload that is active comes to its end as time passes
DeloadEnds == DeloadActive(exercises[1], now) ~> ~DeloadActive(exercises[1], now)

\* a deload that has run out is active again only by a step that records a log
\* with pain0to10 >= 5
DeloadStaysOver ==
  [][(DeloadOver(exercises[1], now) /\ DeloadActive(exercises'[1], now'))
       => (pc' = "adjustExerciseIntensity" /\ PainOver(handlers[1].log, 5))]_vars

\* C21: a deload is temporary: once adjustExerciseIntensity has set deloadUntil,
\* getEffectiveIntensity eventually reports deloadActive = false, and it stays
\* false until another log with pain0to10 >= 5 is recorded.
C21_AsClaimed == DeloadEnds /\ DeloadStaysOver

\* ---- C23 ----

\* the record has a baseline intensity, and it is within 0.30 and 0.70
IntensityInRange(record) ==
  /\ Has(record, "baseline")
  /\ Has(record.baseline, "intensityPct")
  /\ record.baseline.intensityPct >= INTENSITY_MIN
  /\ record.baseline.intensityPct <= INTENSITY_MAX

\* C23: once loadStore has run, the baseline intensityPct of every exercise in
\* state.exercises and in the exercises store is within 0.30 and 0.70, after
\* any sequence of loadStore, saveExercise, importJson and
\* adjustExerciseIntensity.
C23_AsClaimed ==
  pc # "start" =>
    /\ \A i \in 1..Len(exercises) : IntensityInRange(exercises[i])
    /\ \A record \in db.exercises : IntensityInRange(record)

\* ---- C29 ----

\* loadStore finds in the store what was in memory, no more and no less
LoadsWhatWasHeld ==
  /\ Elements(exercises') = Elements(exercises)
  /\ Elements(logs') = Elements(logs)
  /\ Elements(templates') = Elements(templates)

\* after a confirmed resetAll the store holds what memory holds
ResetAgrees == [][(pc = "resetAll" /\ pc' = "loadStore") => LoadsWhatWasHeld]_vars

\* C29: once a confirmed resetAll or a successful importJson has completed,
\* loadStore yields exactly the exercises, logs and templates that were in
\* memory; no record that the operation removed from memory survives in the
\* store.
C29_AsClaimed ==
  [][(pc \in {"resetAll", "importJson"} /\ pc' = "loadStore") => LoadsWhatWasHeld]_vars

\* ---- C27 ----

\* the Save handler and deleteExercise have both completed
BothCompleted ==
  /\ handlers[2].pc = "done"
  /\ handlers[1].pc = "idle"
  /\ jobs = <<>>
  /\ transactions = <<>>

\* C27: for every interleaving of deleteExercise(id) with an
\* adjustExerciseIntensity(id, now) that a log save has triggered, once both
\* have completed neither state.exercises nor the exercises store holds a
\* record with that id.
C27_AsClaimed ==
  BothCompleted =>
    /\ \A i \in 1..Len(exercises) : exercises[i].id # handlers[2].value.id
    /\ \A record \in db.exercises : record.id # handlers[2].value.id

\* ---- C28 ----

\* the handler has shown the message of a log that validateLog rejects
Rejected(message) == message \in {RepsAtLeastOne, LoadAboveZero, DurationAboveZero}

\* C28: when quickLog or the Save of the detailed log handles the items of a
\* template and validateLog rejects the log of one of them, no log of that
\* action is added to state.logs or written to the logs store.
C28_AsClaimed ==
  [][(pc' \in {"quickLog", "detailSave"} /\ Rejected(dialog'))
       => (logs' = logs /\ db'.logs = db.logs)]_vars

\* the Save of the detailed log saves all the logs or none
DetailAllOrNothing ==
  [][(pc' = "detailSave" /\ Rejected(dialog')) => (logs' = logs /\ db'.logs = db.logs)]_vars

\* ---- C30 ----

\* the logs are in the order of their timestamps, the newest first
NewestFirst(lgs) ==
  \A i \in 1..Len(lgs) : \A j \in 1..Len(lgs) : i < j => lgs[i].timestamp >= lgs[j].timestamp

\* the step takes the log `last`, which no other log is newer than, out of
\* memory and out of the store, and leaves every other log where it is
RemovesNewest(lgs, after, stored, storedAfter) ==
  /\ lgs # <<>>
  /\ \A i \in 1..Len(lgs) : lgs[1].timestamp >= lgs[i].timestamp
  /\ after = Tail(lgs)
  /\ \E record \in stored : record.id = lgs[1].id
  /\ storedAfter = {record \in stored : record.id # lgs[1].id}
  /\ \A i \in 1..Len(after) : after[i].id # lgs[1].id

====
